---- MODULE Spec2Model ----
(***************************************************************************)
(* Trading decision and risk-control engine of rcleozier/trader.           *)
(*                                                                         *)
(* Money is counted in integer cents (the code holds dollars as doubles    *)
(* and rounds every registered spend to cents with toFixed(2)); prices     *)
(* are the venue's integer cents.  Infinity and NaN are the two JavaScript *)
(* number values the sizing arithmetic can produce besides finite ones.    *)
(***************************************************************************)
EXTENDS Integers, Sequences, FiniteSets, TLC

VARIABLES
    tradingConfig,        \* TradingService.tradingConfig (config.trading)
    hasKalshiClient,      \* TradingService.kalshiClient supplied to the constructor
    tradedGameKeys,       \* TradingService.tradedGameKeys
    strategyCapitalUsed,  \* TradingService.strategyCapitalUsed (cents)
    createOrderCalls,     \* every portfolioApi.createOrder call of the run, in order
    successes,            \* the placeTrade calls that have returned success
    lastCall,             \* the operation that ran last, its inputs and its result
    nCalls,               \* number of operations run so far
    riskConfig,           \* config.risk
    today,                \* current UTC calendar day (day number)
    statsFile,            \* daily_stats.json: a DailyStats record, or a file kind
    dailyStats,           \* RiskService.dailyStats; NoStats while no RiskService exists
    riskCall,             \* the RiskService call that ran last and its result
    evalCall              \* the detector or exit-rule call that ran last and its result

vars == <<tradingConfig, hasKalshiClient, tradedGameKeys, strategyCapitalUsed,
          createOrderCalls, successes, lastCall, nCalls,
          riskConfig, today, statsFile, dailyStats, riskCall, evalCall>>

tradingVars == <<tradingConfig, hasKalshiClient, tradedGameKeys, strategyCapitalUsed,
                 createOrderCalls, successes, lastCall>>

riskVars == <<riskConfig, today, statsFile, dailyStats, riskCall>>

-----------------------------------------------------------------------------
(* Values *)

Null == -2

Undefined == -3

NaN == -1

Infinity == 1000000000

MaxOps == 2

MaxSizingOps == 3

MaxRiskOps == 3

Min(a, b) == IF a <= b THEN a ELSE b

Max(a, b) == IF a >= b THEN a ELSE b

IsSet(v) == v # Undefined /\ v # Null

Strategies == {"arbitrage", "spread", "mispricing"}

-----------------------------------------------------------------------------
(* Symbols.  A symbol is the sequence of its hyphen-separated segments.    *)

T_NBA_OKC == <<"KXNBAGAME", "25NOV26MINOKC", "OKC">>

T_NBA_MIN == <<"KXNBAGAME", "25NOV26MINOKC", "MIN">>

T_NFL_TB == <<"KXNFLGAME", "25NOV30ARITB", "TB">>

\* Arizona at Tampa Bay on the same date in the hockey series
T_NHL_TB == <<"KXNHLGAME", "25NOV30ARITB", "TB">>

T_CBA_GDS == <<"KXCBAGAME", "25NOV27GDSLN", "GDS">>

T_CBA_LN == <<"KXCBAGAME", "25NOV27GDSLN", "LN">>

T_NCAAF_TXAM == <<"KXNCAAFGAME", "25NOV29TXA", "MVAN", "TXA", "M">>

T_NCAAF_VAN == <<"KXNCAAFGAME", "25NOV29TXA", "MVAN", "VAN">>

Tickers ==
    {T_NBA_OKC, T_NBA_MIN, T_NFL_TB, T_CBA_GDS, T_CBA_LN, T_NCAAF_TXAM, T_NCAAF_VAN}

\* segments that match [A-Z]+GAME
GameSeriesSegments ==
    {"KXNBAGAME", "KXNFLGAME", "KXNHLGAME", "KXCBAGAME", "KXNCAAFGAME",
     "KXNCAABGAME", "KXNCAAMBGAME", "KXNCAAMBGGAME"}

\* prefixes accepted by parseTickerToGame: (KXNBA|KXNFL|KXNHL|KXNCAAB|KXNCAAMBG|KXNCAAF)GAME
ParsedSeriesSegments ==
    {"KXNBAGAME", "KXNFLGAME", "KXNHLGAME", "KXNCAABGAME", "KXNCAAMBGGAME",
     "KXNCAAFGAME"}

\* segments of the form (\d+)([A-Z]+)
DateTeamSegments == {"25NOV26MINOKC", "25NOV30ARITB", "25NOV27GDSLN", "25NOV29TXA"}

\* segments of the form [A-Z]+
AlphaSegments == {"OKC", "MIN", "TB", "ARI", "GDS", "LN", "MVAN", "TXA", "M", "VAN"}

\* segments that match [A-Z0-9]+
AlnumSegments == DateTeamSegments \cup AlphaSegments

SpreadSeriesSegments == {"KXCBAGAME", "KXNBLGAME", "KXEUROLEAGUEGAME"}

isSpreadMarketTicker(ticker) == ticker[1] \in SpreadSeriesSegments

\* getGameKeyFromTicker's null
NoGameKey == "<null>"

\* /^(KXNBA|...)GAME-(\d+)([A-Z]+)-([A-Z]+)$/ ; ok is FALSE when the symbol does
\* not match (the function returns null).  The team split is not modelled
\* further here: the pattern is a sub-pattern of the one getGameKeyFromTicker
\* tries first, so its result never reaches the key.
parseTickerToGame(ticker) ==
    IF /\ Len(ticker) = 3
       /\ ticker[1] \in ParsedSeriesSegments
       /\ ticker[2] \in DateTeamSegments
       /\ ticker[3] \in AlphaSegments
    THEN [ok |-> TRUE, combined |-> ticker[2], teamSide |-> ticker[3]]
    ELSE [ok |-> FALSE, combined |-> "", teamSide |-> ""]

getGameKeyFromTicker(ticker) ==
    IF /\ Len(ticker) = 3
       /\ ticker[1] \in GameSeriesSegments
       /\ ticker[2] \in AlnumSegments
       /\ ticker[3] \in AlnumSegments
    THEN ticker[2]
    ELSE IF ~parseTickerToGame(ticker).ok
         THEN NoGameKey
         ELSE parseTickerToGame(ticker).combined

isSameGameTicker(tickerA, tickerB) ==
    /\ getGameKeyFromTicker(tickerA) # NoGameKey
    /\ getGameKeyFromTicker(tickerB) # NoGameKey
    /\ getGameKeyFromTicker(tickerA) = getGameKeyFromTicker(tickerB)

-----------------------------------------------------------------------------
(* lib/odds.  Probabilities are counted in thousandths.                     *)

NoEval == [fn |-> "none"]

\* price is a whole number of cents; price / 100 in thousandths is price * 10,
\* and a price that is not above 1 is taken as a decimal probability
impliedProbabilityFromKalshiPrice(price) ==
    Min(999, Max(1, IF price > 1 THEN price * 10 ELSE price * 1000))

\* Math.abs(prob1 - prob2) * 100: percentage points, counted in tenths
probabilityDifferencePct(prob1, prob2) ==
    IF prob1 >= prob2 THEN prob1 - prob2 ELSE prob2 - prob1

-----------------------------------------------------------------------------
(* MispricingService.findMispricings for the quotes and reference odds of   *)
(* one game.  A side without a quote, and a reference probability that is   *)
(* not given, are Undefined.                                                *)

\* config.bot: fractions 0.10 and 0.05, in thousandths
BotConfig == [mispricingThresholdPct |-> 100, minEdgeAfterCostsPct |-> 50]

NoEspnOdds ==
    [matched |-> FALSE, homeImpliedProbability |-> Undefined,
     awayImpliedProbability |-> Undefined]

\* an entry of espnOdds; game.awayTeam and game.homeTeam are its teams
EspnOdds(awayTeam, homeTeam, homeProb, awayProb) ==
    [matched |-> TRUE, awayTeam |-> awayTeam, homeTeam |-> homeTeam,
     homeImpliedProbability |-> homeProb, awayImpliedProbability |-> awayProb]

\* gameData.espn of the venue game filed under gameKey after the matching
\* loop; a key is the pair <<awayTeam, homeTeam>> of the template string
matchEspnOdds(gameMapKeys, gameKey, espnOdds) ==
    LET attaches(odds) ==
            IF <<odds.awayTeam, odds.homeTeam>> \in gameMapKeys
            THEN <<odds.awayTeam, odds.homeTeam>> = gameKey
            ELSE <<odds.homeTeam, odds.awayTeam>> = gameKey
        hits == {i \in DOMAIN espnOdds : attaches(espnOdds[i])}
    IN IF hits = {}
       THEN NoEspnOdds
       ELSE espnOdds[CHOOSE i \in hits : \A j \in hits : j <= i]

MispricingFor(side, kalshiProb, espnProb) ==
    [side |-> side, kalshiImpliedProbability |-> kalshiProb,
     sportsbookImpliedProbability |-> espnProb,
     differencePct |-> probabilityDifferencePct(kalshiProb, espnProb),
     isKalshiOvervaluing |-> kalshiProb > espnProb]

sideMispricings(side, kalshiProb, espnProb) ==
    IF /\ kalshiProb # Undefined
       /\ espnProb # Undefined
       /\ probabilityDifferencePct(kalshiProb, espnProb)
              >= BotConfig.mispricingThresholdPct
    THEN <<MispricingFor(side, kalshiProb, espnProb)>>
    ELSE << >>

findMispricings(kalshiHome, kalshiAway, espn) ==
    IF ~espn.matched
    THEN << >>
    ELSE sideMispricings("home", kalshiHome, espn.homeImpliedProbability)
         \o sideMispricings("away", kalshiAway, espn.awayImpliedProbability)

-----------------------------------------------------------------------------
(* TradingService: capital ledger *)

getStrategyLimit(strategy) ==
    CASE strategy = "arbitrage" -> tradingConfig.maxPerStrategyArbitrage
      [] strategy = "spread" -> tradingConfig.maxPerStrategySpread
      [] strategy = "mispricing" -> tradingConfig.maxPerStrategyMispricing
      [] OTHER -> Undefined

getRemainingStrategyCapital(used, strategy) ==
    IF getStrategyLimit(strategy) = Undefined
    THEN Infinity
    ELSE Max(0, getStrategyLimit(strategy) - used[strategy])

registerStrategySpend_Never(used, strategy, amountCents) == used

registerStrategySpend(used, strategy, amountCents) ==
    IF amountCents = NaN \/ amountCents = Infinity \/ amountCents <= 0
    THEN used
    ELSE [used EXCEPT ![strategy] = @ + amountCents]

-----------------------------------------------------------------------------
(* TradingService.findArbitrageBundles.  Probabilities and the fee buffer   *)
(* are thousandths; edgePct is tenths of a percent.                         *)

\* a parsed market: the quote of one side of a game
Market(gameId, side, impliedProbability) ==
    [gameId |-> gameId, side |-> side, impliedProbability |-> impliedProbability]

\* the keys of byGame, in insertion order
byGameKeys(markets) ==
    LET Keys[i \in 0..Len(markets)] ==
            IF i = 0 THEN << >>
            ELSE IF \E j \in 1..Len(Keys[i - 1]) : Keys[i - 1][j] = markets[i].gameId
                 THEN Keys[i - 1]
                 ELSE Append(Keys[i - 1], markets[i].gameId)
    IN Keys[Len(markets)]

\* the bundles in the order the games were first seen
arbitrageBundles(markets, feeBuffer) ==
    LET \* index of the market that ends up as entry.home (isHome) or entry.away of
        \* the game: the last one assigned; 0 when none
        byGameEntry(gameId, isHome) ==
            LET hits == {i \in 1..Len(markets) :
                            /\ markets[i].gameId = gameId
                            /\ (markets[i].side = "home") = isHome}
            IN IF hits = {} THEN 0 ELSE CHOOSE i \in hits : \A j \in hits : j <= i
        keys == byGameKeys(markets)
        Bundles[k \in 0..Len(keys)] ==
            IF k = 0 THEN << >>
            ELSE LET h == byGameEntry(keys[k], TRUE)
                     a == byGameEntry(keys[k], FALSE)
                     totalProb == markets[h].impliedProbability
                                      + markets[a].impliedProbability
                 IN IF h = 0 \/ a = 0 THEN Bundles[k - 1]
                    ELSE IF totalProb < 1000 - feeBuffer
                    THEN Append(Bundles[k - 1],
                                [gameId |-> keys[k], home |-> markets[h], away |-> markets[a],
                                 totalProb |-> totalProb,
                                 edgePct |-> 1000 - feeBuffer - totalProb])
                    ELSE Bundles[k - 1]
    IN Bundles[Len(keys)]

\* bundles.sort((a, b) => b.edgePct - a.edgePct): stable, highest edge first
sortByEdgeDescending(bundles) ==
    LET Sorted[i \in 0..Len(bundles)] ==
            IF i = 0 THEN << >>
            ELSE LET before == Sorted[i - 1]
                     k == Cardinality({j \in 1..Len(before) :
                                          before[j].edgePct >= bundles[i].edgePct})
                 IN SubSeq(before, 1, k) \o <<bundles[i]>> \o SubSeq(before, k + 1, Len(before))
    IN Sorted[Len(bundles)]

findArbitrageBundles_Unsorted(markets, feeBuffer) == arbitrageBundles(markets, feeBuffer)

findArbitrageBundles(markets, feeBuffer) ==
    sortByEdgeDescending(arbitrageBundles(markets, feeBuffer))

-----------------------------------------------------------------------------
(* KalshiClient.parseMarkets.  The strings the parser cuts up are sequences *)
(* of characters.                                                           *)

startsWith(s, p) == Len(p) <= Len(s) /\ SubSeq(s, 1, Len(p)) = p

endsWith(s, p) == Len(p) <= Len(s) /\ SubSeq(s, Len(s) - Len(p) + 1, Len(s)) = p

\* position of the last dash, 0 when there is none
lastDash(s) ==
    LET dashes == {i \in 1..Len(s) : s[i] = "-"}
    IN IF dashes = {} THEN 0 ELSE CHOOSE i \in dashes : \A j \in dashes : j <= i

\* a raw market of the venue.  ticker is series-date+teams-side and
\* event_ticker is series-date+teams; teamsAndSide is the text of the ticker
\* after the date and eventTeams the text of the event ticker after the date.
RawMarket(sport, series, date, eventTeams, teamsAndSide, lastPrice) ==
    [sport |-> sport, series |-> series, date |-> date, eventTeams |-> eventTeams,
     teamsAndSide |-> teamsAndSide, last_price |-> lastPrice, yes_bid |-> Null,
     yes_ask |-> Null]

\* extractGameInfo's null
NoGame == [ok |-> FALSE, id |-> << >>, homeTeam |-> << >>, awayTeam |-> << >>]

\* id is `${awayAbbrev}-${homeAbbrev}-${raw.event_ticker}`
Game(raw, awayAbbrev, homeAbbrev) ==
    [ok |-> TRUE, id |-> <<awayAbbrev, homeAbbrev, raw.series, raw.date, raw.eventTeams>>,
     homeTeam |-> homeAbbrev, awayTeam |-> awayAbbrev]

\* the entries of nbaTeamAbbrevMap for the teams of the modelled markets, in
\* the order of the object literal
nbaTeamAbbrevMap ==
    \* team codes
    LET MIN_ == <<"M", "I", "N">>
        OKC_ == <<"O", "K", "C">>
    IN
    <<[key |-> MIN_, value |-> MIN_], [key |-> OKC_, value |-> OKC_]>>

\* teamAbbrevMap[abbrev], else the value of the first key that starts with
\* abbrev and is at most one character longer; << >> when there is none
teamAbbrevFull(teamAbbrevMap, abbrev) ==
    LET exact == {i \in 1..Len(teamAbbrevMap) : teamAbbrevMap[i].key = abbrev}
        prefix == {i \in 1..Len(teamAbbrevMap) :
                      /\ startsWith(teamAbbrevMap[i].key, abbrev)
                      /\ Len(teamAbbrevMap[i].key) <= Len(abbrev) + 1}
    IN IF exact # {} THEN teamAbbrevMap[CHOOSE i \in exact : TRUE].value
       ELSE IF prefix # {}
            THEN teamAbbrevMap[CHOOSE i \in prefix : \A j \in prefix : i <= j].value
            ELSE << >>

\* professional series: the teams are cut out of the event ticker, the first
\* split whose halves are both team codes wins (away first, home second).  The
\* fallback pattern series-\d+([A-Z]+)-([A-Z]+) cannot match a ticker whose
\* date has digits after the month, and the modelled markets carry no title,
\* so without a split there is no game.
extractProGameInfo(raw, teamAbbrevMap) ==
    LET possibleSplits ==
            <<<<3, 3>>, <<3, 4>>, <<4, 3>>, <<3, 2>>, <<2, 3>>, <<4, 4>>, <<2, 4>>, <<4, 2>>>>
        combinedAbbrev == raw.eventTeams
        fits(k) ==
            /\ Len(combinedAbbrev) >= possibleSplits[k][1] + possibleSplits[k][2]
            /\ teamAbbrevFull(teamAbbrevMap,
                              SubSeq(combinedAbbrev, 1, possibleSplits[k][1])) # << >>
            /\ teamAbbrevFull(teamAbbrevMap,
                              SubSeq(combinedAbbrev, possibleSplits[k][1] + 1,
                                     possibleSplits[k][1] + possibleSplits[k][2])) # << >>
        found == {k \in 1..Len(possibleSplits) : fits(k)}
    IN IF found = {} THEN NoGame
       ELSE LET k == CHOOSE x \in found : \A y \in found : x <= y
            IN Game(raw,
                    teamAbbrevFull(teamAbbrevMap,
                                   SubSeq(combinedAbbrev, 1, possibleSplits[k][1])),
                    teamAbbrevFull(teamAbbrevMap,
                                   SubSeq(combinedAbbrev, possibleSplits[k][1] + 1,
                                          possibleSplits[k][1] + possibleSplits[k][2])))

\* college series: the teams are cut out of the ticker itself, around the side
\* code that ends it
extractCollegeGameInfo(raw) ==
    LET cut == lastDash(raw.teamsAndSide)
        sideAbbrev == SubSeq(raw.teamsAndSide, cut + 1, Len(raw.teamsAndSide))
        combinedAbbrev == SubSeq(raw.teamsAndSide, 1, cut - 1)
        len == Len(combinedAbbrev)
        home == IF endsWith(combinedAbbrev, sideAbbrev) \/ startsWith(combinedAbbrev, sideAbbrev)
                THEN sideAbbrev
                ELSE IF len >= 4 THEN SubSeq(combinedAbbrev, len \div 2 + 1, len) ELSE << >>
        away == IF endsWith(combinedAbbrev, sideAbbrev)
                THEN SubSeq(combinedAbbrev, 1, len - Len(sideAbbrev))
                ELSE IF startsWith(combinedAbbrev, sideAbbrev)
                THEN SubSeq(combinedAbbrev, Len(sideAbbrev) + 1, len)
                ELSE IF len >= 4 THEN SubSeq(combinedAbbrev, 1, len \div 2) ELSE << >>
    IN IF cut = 0 \/ combinedAbbrev = << >> \/ away = << >> \/ home = << >>
       THEN NoGame
       ELSE Game(raw, away, home)

extractGameInfo(raw) ==
    IF raw.sport \in {"ncaab", "ncaaf"}
    THEN extractCollegeGameInfo(raw)
    ELSE extractProGameInfo(raw, nbaTeamAbbrevMap)

extractPrice(raw) ==
    IF raw.last_price # Null THEN raw.last_price
    ELSE IF raw.yes_bid # Null THEN raw.yes_bid
    ELSE IF raw.yes_ask # Null THEN raw.yes_ask
    ELSE Null

determineSide(raw, game) ==
    LET includes(s, p) == \E i \in 1..(Len(s) - Len(p) + 1) : SubSeq(s, i, i + Len(p) - 1) = p
        \* partialToFullNHL[lastPart] || partialToFullNFL[lastPart] || lastPart
        normalizedLastPart(part) ==
            CASE part = <<"L", "A">> -> <<"L", "A", "K">>
              [] part = <<"S", "J">> -> <<"S", "J", "S">>
              [] part = <<"N", "J">> -> <<"N", "J", "D">>
              [] part = <<"T", "B">> -> <<"T", "B", "L">>
              [] OTHER -> part
        homeTeam == game.homeTeam
        awayTeam == game.awayTeam
        cut == lastDash(raw.teamsAndSide)
        lastPart == SubSeq(raw.teamsAndSide, cut + 1, Len(raw.teamsAndSide))
        beforeLast == SubSeq(raw.teamsAndSide, 1, cut - 1)
        \* tickerParts[length - 2]: the text between the last two dashes, with
        \* the date in front when that is the date+teams block
        combinedPart == SubSeq(beforeLast, lastDash(beforeLast) + 1, Len(beforeLast))
    IN IF lastPart = homeTeam THEN "home"
       ELSE IF lastPart = awayTeam THEN "away"
       ELSE IF normalizedLastPart(lastPart) = homeTeam THEN "home"
       ELSE IF normalizedLastPart(lastPart) = awayTeam THEN "away"
       ELSE IF Len(lastPart) >= 2 /\ startsWith(homeTeam, lastPart) THEN "home"
       ELSE IF Len(lastPart) >= 2 /\ startsWith(awayTeam, lastPart) THEN "away"
       ELSE IF startsWith(lastPart, homeTeam) THEN "home"
       ELSE IF startsWith(lastPart, awayTeam) THEN "away"
       ELSE IF includes(combinedPart, homeTeam) /\ ~includes(combinedPart, awayTeam) THEN "home"
       ELSE IF includes(combinedPart, awayTeam) /\ ~includes(combinedPart, homeTeam) THEN "away"
       ELSE "home"

\* the markets parseMarkets keeps, in order; gameId is the game's id
parseMarkets(rawMarkets) ==
    LET Parsed[i \in 0..Len(rawMarkets)] ==
            IF i = 0 THEN << >>
            ELSE LET raw == rawMarkets[i]
                     gameInfo == extractGameInfo(raw)
                     price == extractPrice(raw)
                 IN IF ~gameInfo.ok \/ price = Null THEN Parsed[i - 1]
                    ELSE Append(Parsed[i - 1],
                                Market(gameInfo.id, determineSide(raw, gameInfo),
                                       impliedProbabilityFromKalshiPrice(price)))
    IN Parsed[Len(rawMarkets)]

-----------------------------------------------------------------------------
(* TradingService: exposure checks *)

\* index of the first position of the snapshot that blocks the symbol, 0 if none
findExistingPositionForMarket(marketTicker, activePositions) ==
    LET hits == {i \in 1..Len(activePositions) :
                    /\ activePositions[i].position # 0
                    /\ \/ activePositions[i].ticker = marketTicker
                       \/ isSameGameTicker(activePositions[i].ticker, marketTicker)}
    IN IF hits = {} THEN 0 ELSE CHOOSE i \in hits : \A j \in hits : i <= j

OrderMatches_SameTickerOnly(order, marketTicker) == order.ticker = marketTicker /\ order.status \in {"resting", "pending", "executed"} /\ order.remaining_count # Null /\ order.remaining_count > 0

OrderMatches(order, marketTicker) ==
    /\ \/ order.ticker = marketTicker
       \/ isSameGameTicker(order.ticker, marketTicker)
    /\ order.status \in {"resting", "pending", "executed"}
    /\ order.remaining_count # Null /\ order.remaining_count > 0

hasPendingOrder(marketTicker, activeOrders) ==
    \E i \in 1..Len(activeOrders) : OrderMatches(activeOrders[i], marketTicker)

-----------------------------------------------------------------------------
(* TradingService.placeTrade: price discovery and sizing *)

\* market: [kind |-> "ok", yes_ask, yes_bid, no_ask, no_bid, last_price],
\* or kind "missing" (no market in the response) or "error" (getMarkets threw)
discoverBuyPrice(side, market, kalshiPrice) ==
    IF market.kind # "ok"
    THEN IF side = "yes" THEN kalshiPrice ELSE 100 - kalshiPrice
    ELSE IF side = "yes"
         THEN IF market.yes_ask # Null THEN market.yes_ask
              ELSE IF market.yes_bid # Null THEN market.yes_bid
              ELSE IF market.last_price # Null THEN market.last_price
              ELSE kalshiPrice
         ELSE IF market.no_ask # Null THEN market.no_ask
              ELSE IF market.no_bid # Null THEN market.no_bid
              ELSE IF market.yes_ask # Null THEN 100 - market.yes_ask
              ELSE IF market.yes_bid # Null THEN 100 - market.yes_bid
              ELSE IF market.last_price # Null THEN 100 - market.last_price
              ELSE 100 - kalshiPrice

\* desiredStakeDollars ?? (maxBetSize ?? differencePct), in cents
baseBetSize(desiredStake, differencePctCents) ==
    IF IsSet(desiredStake) THEN desiredStake
    ELSE IF IsSet(tradingConfig.maxBetSize) THEN tradingConfig.maxBetSize
    ELSE differencePctCents

applyMinimumBet_None(bet) == bet

applyMinimumBet(bet) == Max(bet, 100)

applyPerMarketCap(bet) ==
    IF tradingConfig.maxPerMarket # Undefined
    THEN Min(bet, tradingConfig.maxPerMarket)
    ELSE bet

applyStrategyCap_None(bet, used, strategy) == bet

applyStrategyCap(bet, used, strategy) ==
    Min(bet, getRemainingStrategyCapital(used, strategy))

betSizeFor(strategy, used, desiredStake, differencePctCents) ==
    applyStrategyCap(
        applyPerMarketCap(applyMinimumBet(baseBetSize(desiredStake, differencePctCents))),
        used, strategy)

\* Math.floor(betSizeDollars / (buyPrice / 100)); x / 0 is Infinity for x > 0
contractCountFor(bet, buyPrice) ==
    IF buyPrice = 0 THEN Infinity ELSE bet \div buyPrice

finalContractCountFor(bet, buyPrice) == Max(contractCountFor(bet, buyPrice), 1)

\* parseFloat((finalContractCount * costPerContract).toFixed(2)), in cents:
\* the product is a whole number of cents, Infinity * 0 is NaN
actualBetSizeFor(bet, buyPrice) ==
    IF finalContractCountFor(bet, buyPrice) = Infinity
    THEN (IF buyPrice = 0 THEN NaN ELSE Infinity)
    ELSE finalContractCountFor(bet, buyPrice) * buyPrice

\* Math.round(x / 10) for x >= 0
RoundTenth(x) == (x + 5) \div 10

spreadTakeProfitPrice(entryPrice) ==
    Max(1, Min(99, Min(entryPrice + 4, RoundTenth(entryPrice * 13))))


-----------------------------------------------------------------------------
(* TradingService.placeTrade *)

\* what the venue's order list shows for the orders of this run
RestingOwnOrders(calls) ==
    LET resting == SelectSeq(calls, LAMBDA c : c.status = "resting")
    IN [i \in 1..Len(resting) |->
           [ticker |-> resting[i].ticker, action |-> resting[i].action,
            status |-> "resting", remaining_count |-> resting[i].count]]

\* KalshiClient.getActiveOrders: the venue's resting and pending orders; the
\* client catches every error of the two requests and returns an empty list
getActiveOrders(calls, accountOrders, refresh) ==
    IF refresh = "ok" THEN RestingOwnOrders(calls) \o accountOrders ELSE << >>

refreshedActiveOrders(calls, activeOrders, accountOrders, refresh) ==
    IF hasKalshiClient
    THEN getActiveOrders(calls, accountOrders, refresh)
    ELSE activeOrders

markTraded_Never(traded, gameKey) == traded

markTraded(traded, gameKey) ==
    IF gameKey # NoGameKey THEN traded \cup {gameKey} ELSE traded

Rejection_ResetsRun(S, error, stake) == [traded |-> {}, used |-> [s \in Strategies |-> 0], calls |-> S.calls, result |-> [success |-> FALSE, error |-> error, orderId |-> "none", stake |-> stake, spend |-> 0, submitted |-> 0]]

Rejection(S, error, stake) ==
    [traded |-> S.traded, used |-> S.used, calls |-> S.calls,
     result |-> [success |-> FALSE, error |-> error, orderId |-> "none",
                 stake |-> stake, spend |-> 0, submitted |-> 0]]

OrderCall(kind, ticker, side, action, count, price, outcome, op) ==
    [kind |-> kind, ticker |-> ticker, side |-> side, action |-> action,
     count |-> count, price |-> price, outcome |-> outcome,
     status |-> CASE outcome = "ok" -> "resting"
                  [] outcome = "filled" -> "executed"
                  [] OTHER -> "none",
     op |-> op]

\* S: [traded, used, calls]; a: the arguments; e: what the venue answers
placeTradeFn(S, a, e, op) ==
    LET gameKey == getGameKeyFromTicker(a.ticker)
        currentActiveOrders ==
            refreshedActiveOrders(S.calls, a.activeOrders, e.accountOrders, e.refresh)
        side == IF a.isKalshiOvervaluing THEN "no" ELSE "yes"
        buyPrice == discoverBuyPrice(side, e.market, a.kalshiPrice)
        betSizeDollars == betSizeFor(a.strategy, S.used, a.desiredStake, a.differencePct)
        finalContractCount == finalContractCountFor(betSizeDollars, buyPrice)
        actualBetSize == actualBetSizeFor(betSizeDollars, buyPrice)
        entry == OrderCall("entry", a.ticker, side, "buy", finalContractCount,
                           buyPrice, e.create, op)
        tp == OrderCall("spread-tp", a.ticker, side, "sell", finalContractCount,
                        spreadTakeProfitPrice(buyPrice), e.tp, op)
    IN
    IF gameKey # NoGameKey /\ gameKey \in S.traded
    THEN Rejection(S, "Game already traded in this run", Undefined)
    ELSE IF findExistingPositionForMarket(a.ticker, a.activePositions) # 0
    THEN Rejection(S, "Existing position found", Undefined)
    ELSE IF hasPendingOrder(a.ticker, currentActiveOrders)
    THEN Rejection(S, "Pending order found", Undefined)
    ELSE IF betSizeDollars < 100
    THEN Rejection(S, "Strategy capital exhausted", betSizeDollars)
    ELSE IF ~tradingConfig.liveTrades
    THEN [traded |-> S.traded,
          used |-> registerStrategySpend(S.used, a.strategy, actualBetSize),
          calls |-> S.calls,
          result |-> [success |-> TRUE, error |-> "none",
                      orderId |-> "dry-run-order-id", stake |-> betSizeDollars,
                      spend |-> actualBetSize, submitted |-> 0]]
    ELSE IF e.create \in {"ok", "filled"}
    THEN [traded |-> markTraded(S.traded, gameKey),
          used |-> registerStrategySpend(S.used, a.strategy, actualBetSize),
          calls |-> IF a.strategy = "spread"
                    THEN S.calls \o <<entry, tp>>
                    ELSE Append(S.calls, entry),
          result |-> [success |-> TRUE, error |-> "none", orderId |-> "order",
                      stake |-> betSizeDollars, spend |-> actualBetSize,
                      submitted |-> IF a.strategy = "spread" THEN 2 ELSE 1]]
    ELSE [traded |-> S.traded, used |-> S.used,
          calls |-> Append(S.calls, entry),
          result |-> [success |-> FALSE,
                      error |-> IF e.create = "empty"
                                THEN "No order returned from API"
                                ELSE "createOrder failed",
                      orderId |-> "none", stake |-> betSizeDollars,
                      spend |-> 0, submitted |-> 1]]


-----------------------------------------------------------------------------
(* Inputs *)

Quote(ya, yb, na, nb, lp) ==
    [kind |-> "ok", yes_ask |-> ya, yes_bid |-> yb, no_ask |-> na,
     no_bid |-> nb, last_price |-> lp]

NoMarket(kind) ==
    [kind |-> kind, yes_ask |-> Null, yes_bid |-> Null, no_ask |-> Null,
     no_bid |-> Null, last_price |-> Null]

Position(ticker, count, result, openTs) ==
    [ticker |-> ticker, position |-> count, market_result |-> result, open_ts |-> openTs]

Order(ticker, action, status, remaining) ==
    [ticker |-> ticker, action |-> action, status |-> status, remaining_count |-> remaining]

\* what a caller passes as positions and orders, and whether the venue
\* answers the order refresh
Snapshots ==
    {<< << >>, << >>, "ok" >>,
     << << >>, << >>, "fail" >>,
     << <<Position(T_CBA_LN, 5, "yes", 0)>>, << >>, "ok" >>,
     << <<Position(T_CBA_GDS, 0, "yes", 0)>>, <<Order(T_CBA_LN, "sell", "resting", 3)>>, "ok" >>,
     << << >>, <<Order(T_CBA_LN, "sell", "resting", 3)>>, "fail" >>}

InitialLedger == [s \in Strategies |-> 0]

NoCall ==
    [op |-> "none", strategy |-> "none", ticker |-> << >>, success |-> FALSE,
     error |-> "none", stake |-> Undefined, spend |-> 0, orders |-> << >>,
     twinSucceeded |-> FALSE, desiredStake |-> Undefined, differencePct |-> 0,
     usedBefore |-> 0]

\* config.trading as the environment can set it (caps in cents)
TradingConfigs ==
    {[liveTrades |-> live, maxBetSize |-> Undefined, maxPerMarket |-> Undefined,
      maxPerStrategyArbitrage |-> 10000, maxPerStrategySpread |-> 300,
      maxPerStrategyMispricing |-> Undefined, maxHoldTimeHours |-> 24] : live \in BOOLEAN}
    \cup
    {[liveTrades |-> live, maxBetSize |-> 500, maxPerMarket |-> 2500,
      maxPerStrategyArbitrage |-> 10000, maxPerStrategySpread |-> 300,
      maxPerStrategyMispricing |-> 700, maxHoldTimeHours |-> 24] : live \in BOOLEAN}

-----------------------------------------------------------------------------
(* Operations of a run *)

\* the other symbols of the same game
Twins(ticker) == {u \in Tickers : u # ticker /\ isSameGameTicker(u, ticker)}

RunState ==
    [traded |-> tradedGameKeys, used |-> strategyCapitalUsed, calls |-> createOrderCalls]

LogEntry(c) ==
    [kind |-> c.kind, ticker |-> c.ticker, side |-> "-", action |-> c.action,
     count |-> c.count, price |-> 0, outcome |-> c.outcome, status |-> c.status, op |-> 0]

ApplyPlaceTrade(a, R) ==
    /\ tradedGameKeys' = R.traded
    /\ strategyCapitalUsed' = R.used
    /\ createOrderCalls' = [i \in 1..Len(R.calls) |-> LogEntry(R.calls[i])]
    /\ successes' = IF R.result.success
                     THEN successes \cup {[op |-> nCalls + 1, strategy |-> a.strategy,
                                            ticker |-> a.ticker,
                                            desiredStake |-> a.desiredStake,
                                            spend |-> R.result.spend]}
                     ELSE successes
    /\ lastCall' = [op |-> "placeTrade", strategy |-> a.strategy, ticker |-> a.ticker,
                    success |-> R.result.success, error |-> R.result.error,
                    stake |-> R.result.stake, spend |-> R.result.spend,
                    orders |-> SubSeq(R.calls, Len(R.calls) - R.result.submitted + 1,
                                      Len(R.calls)),
                    twinSucceeded |-> (\E c \in successes : c.ticker \in Twins(a.ticker)),
                    desiredStake |-> a.desiredStake, differencePct |-> a.differencePct,
                    usedBefore |-> strategyCapitalUsed[a.strategy]]
    /\ nCalls' = nCalls + 1

\* portfolioApi.createOrder: accepted and resting, accepted and executed at
\* once, answered without an order, or thrown
CreateOutcomes == {"ok", "filled", "empty", "error"}

EarlyRejections ==
    {"Game already traded in this run", "Existing position found", "Pending order found"}

\* one placeTrade call; the inputs a stage does not read are not enumerated
PlaceTradeWith(tickers, snapshots, sides, markets, prices, sizings, creates) ==
    \E strategy \in Strategies, ticker \in tickers, snapshot \in snapshots :
      LET activePositions == snapshot[1]
          activeOrders == snapshot[2]
          refresh == snapshot[3]
          a0 == [strategy |-> strategy, ticker |-> ticker,
                 isKalshiOvervaluing |-> FALSE, kalshiPrice |-> 50,
                 differencePct |-> 100, activePositions |-> activePositions,
                 activeOrders |-> activeOrders, desiredStake |-> Undefined]
          e0 == [refresh |-> refresh, accountOrders |-> activeOrders,
                 market |-> NoMarket("error"), create |-> "error", tp |-> "error"]
          R0 == placeTradeFn(RunState, a0, e0, nCalls + 1)
      IN
      IF R0.result.error \in EarlyRejections
      THEN ApplyPlaceTrade(a0, R0)
      ELSE
        \E overvaluing \in sides, market \in markets, kalshiPrice \in prices,
           sizing \in sizings :
          LET a1 == [a0 EXCEPT !.isKalshiOvervaluing = overvaluing,
                               !.kalshiPrice = kalshiPrice,
                               !.desiredStake = sizing[1],
                               !.differencePct = sizing[2]]
              e1 == [e0 EXCEPT !.market = market]
              R1 == placeTradeFn(RunState, a1, e1, nCalls + 1)
          IN
          IF R1.result.error = "Strategy capital exhausted" \/ ~tradingConfig.liveTrades
          THEN ApplyPlaceTrade(a1, R1)
          ELSE
            \E create \in creates :
            \E tp \in IF strategy = "spread" /\ create \in {"ok", "filled"}
                      THEN creates \cap {"ok", "error"} ELSE {"error"} :
              ApplyPlaceTrade(a1,
                  placeTradeFn(RunState, a1, [e1 EXCEPT !.create = create, !.tp = tp],
                               nCalls + 1))

-----------------------------------------------------------------------------
(* TradingService.enforceSpreadMaxHoldTime *)

RestingSellQty(ticker, activeOrders) ==
    LET sells == SelectSeq(activeOrders, LAMBDA o :
                     /\ o.ticker = ticker
                     /\ o.action = "sell"
                     /\ o.status \in {"resting", "pending"}
                     /\ o.remaining_count # Null /\ o.remaining_count > 0)
        Sum[i \in 0..Len(sells)] ==
            IF i = 0 THEN 0 ELSE Sum[i - 1] + sells[i].remaining_count
    IN Sum[Len(sells)]

\* exit price of the time-based exit; Null when none is found (0 is falsy on
\* the YES branch, which chains the candidates with || )
ttlExitPrice(isYes, market) ==
    IF isYes
    THEN IF market.yes_bid # Null /\ market.yes_bid # 0 THEN market.yes_bid
         ELSE IF market.last_price # Null /\ market.last_price # 0 THEN market.last_price
         ELSE Null
    ELSE IF market.no_bid # Null THEN market.no_bid
         ELSE IF market.yes_ask # Null THEN 100 - market.yes_ask
         ELSE IF market.yes_bid # Null THEN 100 - market.yes_bid
         ELSE IF market.last_price # Null THEN 100 - market.last_price
         ELSE Null

clampPrice(price) == Max(1, Min(99, price))

\* the createOrder calls of one pass over the positions; every position gets
\* the same market answer and the same createOrder outcome
ttlExitOrders(activePositions, activeOrders, nowSec, market, create, op) ==
    LET hours == tradingConfig.maxHoldTimeHours
        OrderFor(pos) ==
            OrderCall("ttl-exit", pos.ticker,
                      IF pos.market_result = "yes" THEN "yes" ELSE "no", "sell",
                      pos.position - RestingSellQty(pos.ticker, activeOrders),
                      clampPrice(ttlExitPrice(pos.market_result = "yes", market)),
                      create, op)
        Exits(pos) ==
            /\ pos.position # 0
            /\ isSpreadMarketTicker(pos.ticker)
            /\ pos.open_ts # 0
            /\ nowSec - pos.open_ts >= hours * 3600
            /\ pos.position > 0
            /\ pos.position - RestingSellQty(pos.ticker, activeOrders) > 0
            /\ market.kind # "error"
            /\ market.kind # "missing"
            /\ ttlExitPrice(pos.market_result = "yes", market) # Null
        Calls[i \in 0..Len(activePositions)] ==
            IF i = 0 THEN << >>
            ELSE IF Exits(activePositions[i])
                 THEN Append(Calls[i - 1], OrderFor(activePositions[i]))
                 ELSE Calls[i - 1]
    IN IF hours = Undefined \/ hours <= 0
       THEN << >>
       ELSE Calls[Len(activePositions)]

ApplyExit(opName, ticker, submitted) ==
    /\ createOrderCalls' = createOrderCalls \o [i \in 1..Len(submitted) |-> LogEntry(submitted[i])]
    /\ lastCall' = [NoCall EXCEPT !.op = opName, !.ticker = ticker, !.success = TRUE,
                                  !.orders = submitted]
    /\ nCalls' = nCalls + 1
    /\ UNCHANGED <<tradingConfig, hasKalshiClient, tradedGameKeys, strategyCapitalUsed,
                   successes>>
    /\ UNCHANGED <<riskVars, evalCall>>

ExitPositions ==
    {Position(T_CBA_GDS, 5, "yes", 100000), Position(T_CBA_GDS, 5, "no", 100000),
     Position(T_CBA_GDS, 5, "yes", 199000), Position(T_CBA_GDS, 5, "yes", 0),
     Position(T_NBA_OKC, 5, "yes", 100000), Position(T_CBA_LN, 0 - 5, "no", 100000)}

ExitOrderSnapshots ==
    {<< >>, <<Order(T_CBA_GDS, "sell", "resting", 3)>>,
     <<Order(T_CBA_GDS, "sell", "pending", 5)>>}

ExitMarkets ==
    {Quote(30, 28, 72, 70, 29), Quote(100, 0, Null, Null, 100),
     Quote(Null, Null, Null, Null, Null), NoMarket("error")}

EnforceSpreadMaxHoldTime ==
    /\ nCalls < MaxOps
    /\ \E pos \in ExitPositions, activeOrders \in ExitOrderSnapshots,
          market \in ExitMarkets, nowSec \in {200000} :
         IF ttlExitOrders(<<pos>>, activeOrders, nowSec, market, "ok", nCalls + 1) = << >>
         THEN ApplyExit("enforceSpreadMaxHoldTime", pos.ticker, << >>)
         ELSE \E create \in {"ok", "error"} :
                ApplyExit("enforceSpreadMaxHoldTime", pos.ticker,
                          ttlExitOrders(<<pos>>, activeOrders, nowSec, market, create,
                                        nCalls + 1))

-----------------------------------------------------------------------------
(* PositionManager.placeExitOrder *)

improveExit(price) == IF riskConfig.improveExitByOneTick THEN Max(1, price - 1) ELSE price

exitOrderCalls(position, exitPrice, create, op) ==
    IF position.position <= 0
    THEN << >>
    ELSE IF tradingConfig.liveTrades
    THEN <<OrderCall("exit", position.ticker,
                     IF position.market_result = "yes" THEN "yes" ELSE "no", "sell",
                     position.position, clampPrice(improveExit(exitPrice)), create, op)>>
    ELSE << >>

PlaceExitOrder ==
    /\ nCalls < MaxOps
    /\ \E pos \in ExitPositions, exitPrice \in {0, 30, 100} :
         IF exitOrderCalls(pos, exitPrice, "ok", nCalls + 1) = << >>
         THEN ApplyExit("placeExitOrder", pos.ticker, << >>)
         ELSE \E create \in {"ok", "error"} :
                ApplyExit("placeExitOrder", pos.ticker,
                          exitOrderCalls(pos, exitPrice, create, nCalls + 1))

-----------------------------------------------------------------------------
(* PositionManager.evaluatePositionExit and managePositions.  Prices and    *)
(* entry prices are cents, percentages are percent, times are seconds.      *)

\* a position as the portfolio reports it; avg_price is the entry price in
\* hundredths (0.40 is 40), total_cost is cents
HeldPosition(ticker, count, result, openTs, avgPrice, totalCost) ==
    [ticker |-> ticker, position |-> count, market_result |-> result, open_ts |-> openTs,
     avg_price |-> avgPrice, total_cost |-> totalCost]

exitBestBid(isYesPosition, market) ==
    IF isYesPosition
    THEN market.yes_bid
    ELSE IF market.yes_ask # Null THEN 100 - market.yes_ask ELSE Null

exitCurrentPrice(isYesPosition, market) ==
    IF isYesPosition
    THEN IF market.last_price # Null THEN market.last_price ELSE market.yes_bid
    ELSE IF market.last_price # Null THEN 100 - market.last_price
         ELSE IF market.yes_bid # Null THEN 100 - market.yes_bid
         ELSE Null

\* Math.round(entryPrice * 100); Null when the position carries no entry price
entryPriceCents(position) ==
    IF position.avg_price # Null
    THEN position.avg_price
    ELSE IF position.total_cost # Null /\ position.total_cost > 0 /\ position.position > 0
         THEN (2 * position.total_cost + position.position) \div (2 * position.position)
         ELSE Null

\* unrealizedPnlPct >= pct, where unrealizedPnlPct is
\* (currentPrice * n - entry * n) / (entry * n) * 100 with n > 0; a zero cost
\* gives Infinity (or NaN when the price is zero too)
pnlPctAtLeast(currentPrice, entry, pct) ==
    IF entry = 0 THEN currentPrice > 0 ELSE (currentPrice - entry) * 100 >= pct * entry

\* unrealizedPnlPct <= -pct
pnlPctAtMost(currentPrice, entry, pct) ==
    IF entry = 0 THEN FALSE ELSE (currentPrice - entry) * 100 <= (0 - pct) * entry

NoExit(evaluated) ==
    [shouldExit |-> FALSE, exitPrice |-> Null, reason |-> "none", profitCents |-> Null,
     evaluated |-> evaluated, currentPrice |-> Null, entryPriceCents |-> Null]

ExitNow(bestBid, reason, currentPrice, entry) ==
    [shouldExit |-> TRUE, exitPrice |-> bestBid, reason |-> reason,
     profitCents |-> currentPrice - entry,
     evaluated |-> TRUE, currentPrice |-> currentPrice, entryPriceCents |-> entry]

\* the rule block of evaluatePositionExit, reached once prices and entry are
\* known (and, before it, the same block with the time rule tried first)
exitRuleFor_MaxHoldFirst(position, bestBid, currentPrice, entry, nowSec) ==
    LET rules == riskConfig
    IN IF /\ rules.maxHoldMinutes # Undefined
          /\ position.open_ts # 0
          /\ nowSec - position.open_ts >= rules.maxHoldMinutes * 60
       THEN ExitNow(bestBid, "Max hold time", currentPrice, entry)
       ELSE IF /\ rules.takeProfitCentsPerContract # Undefined
               /\ currentPrice - entry >= rules.takeProfitCentsPerContract
       THEN ExitNow(bestBid, "TP cents/contract", currentPrice, entry)
       ELSE IF /\ rules.takeProfitPctOfCost # Undefined
               /\ pnlPctAtLeast(currentPrice, entry, rules.takeProfitPctOfCost)
       THEN ExitNow(bestBid, "TP % of cost", currentPrice, entry)
       ELSE IF /\ rules.stopLossPct # Undefined
               /\ pnlPctAtMost(currentPrice, entry, rules.stopLossPct)
       THEN ExitNow(bestBid, "SL % loss", currentPrice, entry)
       ELSE [NoExit(TRUE) EXCEPT !.currentPrice = currentPrice, !.entryPriceCents = entry]

exitRuleFor(position, bestBid, currentPrice, entry, nowSec) ==
    LET rules == riskConfig
    IN IF /\ rules.takeProfitCentsPerContract # Undefined
          /\ currentPrice - entry >= rules.takeProfitCentsPerContract
       THEN ExitNow(bestBid, "TP cents/contract", currentPrice, entry)
       ELSE IF /\ rules.takeProfitPctOfCost # Undefined
               /\ pnlPctAtLeast(currentPrice, entry, rules.takeProfitPctOfCost)
       THEN ExitNow(bestBid, "TP % of cost", currentPrice, entry)
       ELSE IF /\ rules.stopLossPct # Undefined
               /\ pnlPctAtMost(currentPrice, entry, rules.stopLossPct)
       THEN ExitNow(bestBid, "SL % loss", currentPrice, entry)
       ELSE IF /\ rules.maxHoldMinutes # Undefined
               /\ position.open_ts # 0
               /\ nowSec - position.open_ts >= rules.maxHoldMinutes * 60
       THEN ExitNow(bestBid, "Max hold time", currentPrice, entry)
       ELSE [NoExit(TRUE) EXCEPT !.currentPrice = currentPrice, !.entryPriceCents = entry]

evaluatePositionExit(position, activeOrders, market, nowSec) ==
    LET positionCount == position.position
        qtyToExit == positionCount - RestingSellQty(position.ticker, activeOrders)
        isYesPosition == position.market_result = "yes"
        bestBid == exitBestBid(isYesPosition, market)
        currentPrice == exitCurrentPrice(isYesPosition, market)
        entry == entryPriceCents(position)
    IN IF positionCount = 0 THEN NoExit(FALSE)
       ELSE IF qtyToExit <= 0 THEN NoExit(FALSE)
       ELSE IF market.kind # "ok" THEN NoExit(FALSE)
       ELSE IF currentPrice = Null \/ bestBid = Null THEN NoExit(FALSE)
       ELSE IF entry = Null THEN NoExit(FALSE)
       ELSE exitRuleFor(position, bestBid, currentPrice, entry, nowSec)

\* the createOrder calls of one pass of managePositions over the positions;
\* every position gets the same market answer and the same createOrder outcome
managePositions(activePositions, activeOrders, market, nowSec, create, op) ==
    LET Calls[i \in 0..Len(activePositions)] ==
            IF i = 0 THEN << >>
            ELSE LET pos == activePositions[i]
                     exitResult == evaluatePositionExit(pos, activeOrders, market, nowSec)
                 IN IF pos.position = 0 \/ ~exitResult.shouldExit
                    THEN Calls[i - 1]
                    ELSE Calls[i - 1] \o exitOrderCalls(pos, exitResult.exitPrice, create, op)
    IN Calls[Len(activePositions)]

-----------------------------------------------------------------------------
(* RiskService.  Dates are day numbers; amounts are cents.                  *)

getTodayDate == today

DailyStats(date, tradesCount, notionalSpent, realizedPnl) ==
    [date |-> date, tradesCount |-> tradesCount, notionalSpent |-> notionalSpent,
     realizedPnl |-> realizedPnl]

\* daily_stats.json when it does not exist, and when it does not parse
MissingFile == [date |-> Null, kind |-> "missing"]

CorruptFile == [date |-> Null, kind |-> "corrupt"]

\* the null of DailyStats | null
NoStats == [date |-> Null, kind |-> "null"]

loadDailyStats_AnyDate(file) ==
    IF file = MissingFile THEN NoStats
    ELSE IF file = CorruptFile THEN NoStats
    ELSE file

loadDailyStats(file) ==
    IF file = MissingFile THEN NoStats
    ELSE IF file = CorruptFile THEN NoStats
    ELSE IF file.date = getTodayDate THEN file
    ELSE NoStats

saveDailyStats(stats) == stats

\* new RiskService(): the value of this.dailyStats
RiskServiceConstructor(file) ==
    IF loadDailyStats(file) = NoStats
    THEN DailyStats(getTodayDate, 0, 0, 0)
    ELSE loadDailyStats(file)

Allowed == [allowed |-> TRUE, reason |-> "none"]

Denied(reason) == [allowed |-> FALSE, reason |-> reason]

canPlaceTrade_NotionalFirst(stats, orderNotional, currentBalance, totalPositions, activeOrders) ==
    IF /\ riskConfig.maxOrderNotional # Undefined
       /\ orderNotional > riskConfig.maxOrderNotional
    THEN Denied("Order notional exceeds max")
    ELSE IF /\ riskConfig.maxPositionsTotal # Undefined
            /\ totalPositions >= riskConfig.maxPositionsTotal
    THEN Denied("Max positions limit reached")
    ELSE IF /\ riskConfig.maxDailyTrades # Undefined
            /\ stats.tradesCount >= riskConfig.maxDailyTrades
    THEN Denied("Max daily trades reached")
    ELSE IF /\ riskConfig.maxDailyNotional # Undefined
            /\ stats.notionalSpent + orderNotional > riskConfig.maxDailyNotional
    THEN Denied("Daily notional would exceed limit")
    ELSE IF /\ riskConfig.maxDailyLoss # Undefined
            /\ stats.realizedPnl <= 0 - riskConfig.maxDailyLoss
    THEN Denied("Daily loss limit reached")
    ELSE Allowed

canPlaceTrade(stats, orderNotional, currentBalance, totalPositions, activeOrders) ==
    IF /\ riskConfig.maxPositionsTotal # Undefined
       /\ totalPositions >= riskConfig.maxPositionsTotal
    THEN Denied("Max positions limit reached")
    ELSE IF /\ riskConfig.maxOrderNotional # Undefined
            /\ orderNotional > riskConfig.maxOrderNotional
    THEN Denied("Order notional exceeds max")
    ELSE IF /\ riskConfig.maxDailyTrades # Undefined
            /\ stats.tradesCount >= riskConfig.maxDailyTrades
    THEN Denied("Max daily trades reached")
    ELSE IF /\ riskConfig.maxDailyNotional # Undefined
            /\ stats.notionalSpent + orderNotional > riskConfig.maxDailyNotional
    THEN Denied("Daily notional would exceed limit")
    ELSE IF /\ riskConfig.maxDailyLoss # Undefined
            /\ stats.realizedPnl <= 0 - riskConfig.maxDailyLoss
    THEN Denied("Daily loss limit reached")
    ELSE Allowed

recordTrade_CountsTwice(stats, notional) == [stats EXCEPT !.tradesCount = @ + 2, !.notionalSpent = @ + notional]

recordTrade(stats, notional) ==
    [stats EXCEPT !.tradesCount = @ + 1, !.notionalSpent = @ + notional]

updateRealizedPnl(stats, pnl) == [stats EXCEPT !.realizedPnl = @ + pnl]

NoRiskCall ==
    [op |-> "none", allowed |-> TRUE, reason |-> "none", orderNotional |-> 0,
     totalPositions |-> 0, stats |-> DailyStats(0, 0, 0, 0), file |-> MissingFile,
     day |-> 0]

RiskCall(op, verdict, orderNotional, totalPositions, stats, file) ==
    [op |-> op, allowed |-> verdict.allowed, reason |-> verdict.reason,
     orderNotional |-> orderNotional, totalPositions |-> totalPositions,
     stats |-> stats, file |-> file, day |-> getTodayDate]

\* new RiskService() in a process that starts now; file is what it found on disk
Construct ==
    /\ nCalls < MaxRiskOps
    /\ dailyStats' = RiskServiceConstructor(statsFile)
    /\ riskCall' = RiskCall("constructor", Allowed, 0, 0,
                            RiskServiceConstructor(statsFile), statsFile)
    /\ nCalls' = nCalls + 1
    /\ UNCHANGED <<riskConfig, today, statsFile>>
    /\ UNCHANGED <<tradingVars, evalCall>>

OrderNotionals == {500, 1000, 1001}

PositionCounts == {0, 2}

CanPlaceTrade ==
    /\ nCalls < MaxRiskOps
    /\ \E orderNotional \in OrderNotionals, totalPositions \in PositionCounts :
         riskCall' = RiskCall("canPlaceTrade",
                              canPlaceTrade(dailyStats, orderNotional, 0, totalPositions,
                                            << >>),
                              orderNotional, totalPositions, dailyStats, statsFile)
    /\ nCalls' = nCalls + 1
    /\ UNCHANGED <<riskConfig, today, statsFile, dailyStats>>
    /\ UNCHANGED <<tradingVars, evalCall>>

RecordTrade ==
    /\ nCalls < MaxRiskOps
    /\ \E notional \in {500, 1001} :
         /\ dailyStats' = recordTrade(dailyStats, notional)
         /\ statsFile' = saveDailyStats(recordTrade(dailyStats, notional))
         /\ riskCall' = RiskCall("recordTrade", Allowed, notional, 0,
                                 recordTrade(dailyStats, notional), statsFile)
    /\ nCalls' = nCalls + 1
    /\ UNCHANGED <<riskConfig, today>>
    /\ UNCHANGED <<tradingVars, evalCall>>

UpdateRealizedPnl ==
    /\ nCalls < MaxRiskOps
    /\ \E pnl \in {0 - 500, 200} :
         /\ dailyStats' = updateRealizedPnl(dailyStats, pnl)
         /\ statsFile' = saveDailyStats(updateRealizedPnl(dailyStats, pnl))
         /\ riskCall' = RiskCall("updateRealizedPnl", Allowed, pnl, 0,
                                 updateRealizedPnl(dailyStats, pnl), statsFile)
    /\ nCalls' = nCalls + 1
    /\ UNCHANGED <<riskConfig, today>>
    /\ UNCHANGED <<tradingVars, evalCall>>

\* the UTC date changes while the process runs
DayRollover ==
    /\ nCalls < MaxRiskOps
    /\ today' = today + 1
    /\ nCalls' = nCalls + 1
    /\ UNCHANGED <<riskConfig, statsFile, dailyStats, riskCall>>
    /\ UNCHANGED <<tradingVars, evalCall>>

\* config.risk as the environment can set it: each hard limit set or not
RiskConfigs ==
    [maxPositionsTotal : {Undefined, 2}, maxOrderNotional : {Undefined, 1000},
     maxDailyTrades : {Undefined, 1}, maxDailyNotional : {Undefined, 1500},
     maxDailyLoss : {Undefined, 500}, improveExitByOneTick : {TRUE},
     takeProfitCentsPerContract : {2}, takeProfitPctOfCost : {10},
     maxHoldMinutes : {180}, stopLossPct : {Undefined}]

\* what a starting process can find on disk on day 1
InitialStatsFiles ==
    {MissingFile, CorruptFile, DailyStats(0, 3, 4000, 0 - 700), DailyStats(1, 1, 1000, 0 - 500)}

-----------------------------------------------------------------------------
(* A run of the engine *)

EngineMarkets == {Quote(30, 28, 72, 70, 29)}

EngineTickers == {T_CBA_GDS, T_CBA_LN, T_NCAAF_TXAM}

PlaceTrade ==
    /\ nCalls < MaxOps
    /\ PlaceTradeWith(EngineTickers, Snapshots, BOOLEAN, EngineMarkets, {30},
                      {<<Undefined, 1250>>}, CreateOutcomes)
    /\ UNCHANGED <<tradingConfig, hasKalshiClient>>
    /\ UNCHANGED <<riskVars, evalCall>>

\* config.risk of the run (cents); no limit is configured by default
EngineRiskConfig ==
    [maxPositionsTotal |-> 1, maxOrderNotional |-> 1000, maxDailyTrades |-> 1,
     maxDailyNotional |-> 2000, maxDailyLoss |-> 500, improveExitByOneTick |-> TRUE,
     takeProfitCentsPerContract |-> 2, takeProfitPctOfCost |-> 10,
     maxHoldMinutes |-> 180, stopLossPct |-> Undefined]

Init ==
    /\ tradingConfig \in {c \in TradingConfigs : c.maxBetSize = Undefined}
    /\ hasKalshiClient = TRUE
    /\ tradedGameKeys = {}
    /\ strategyCapitalUsed = InitialLedger
    /\ createOrderCalls = << >>
    /\ successes = {}
    /\ lastCall = NoCall
    /\ nCalls = 0
    /\ riskConfig = EngineRiskConfig
    /\ today = 1
    /\ statsFile = MissingFile
    /\ dailyStats = NoStats
    /\ riskCall = NoRiskCall
    /\ evalCall = NoEval

Next ==
    \/ PlaceTrade
    \/ EnforceSpreadMaxHoldTime
    \/ PlaceExitOrder

Spec == Init /\ [][Next]_vars

-----------------------------------------------------------------------------
(* Stake sizing: placeTrade over the prices, stakes and caps it can meet *)

\* successive calls are for distinct games
SizingGames == <<T_NBA_OKC, T_NFL_TB, T_CBA_GDS, T_NCAAF_TXAM>>

SizingTickers == {SizingGames[(nCalls % Len(SizingGames)) + 1]}

SizingPrices == {30, 100}

\* <<desiredStakeDollars, mispricing.differencePct>> in cents
SizingStakes == {<<Undefined, 50>>, <<8000, 1250>>}

SizingInit ==
    /\ tradingConfig \in TradingConfigs
    /\ hasKalshiClient = TRUE
    /\ tradedGameKeys = {}
    /\ strategyCapitalUsed = InitialLedger
    /\ createOrderCalls = << >>
    /\ successes = {}
    /\ lastCall = NoCall
    /\ nCalls = 0
    /\ riskConfig = EngineRiskConfig
    /\ today = 1
    /\ statsFile = MissingFile
    /\ dailyStats = NoStats
    /\ riskCall = NoRiskCall
    /\ evalCall = NoEval

SizingPlaceTrade ==
    /\ nCalls < MaxSizingOps
    /\ PlaceTradeWith(SizingTickers, {<< << >>, << >>, "ok" >>}, {FALSE},
                      {NoMarket("error")}, SizingPrices, SizingStakes, {"ok", "error"})
    /\ UNCHANGED <<tradingConfig, hasKalshiClient>>
    /\ UNCHANGED <<riskVars, evalCall>>

SizingSpec == SizingInit /\ [][SizingPlaceTrade]_vars

-----------------------------------------------------------------------------
(* A RiskService across process starts and UTC days *)

RiskInit ==
    /\ tradingConfig \in {c \in TradingConfigs : c.maxBetSize = Undefined /\ c.liveTrades}
    /\ hasKalshiClient = TRUE
    /\ tradedGameKeys = {}
    /\ strategyCapitalUsed = InitialLedger
    /\ createOrderCalls = << >>
    /\ successes = {}
    /\ lastCall = NoCall
    /\ nCalls = 0
    /\ riskConfig \in RiskConfigs
    /\ today = 1
    /\ statsFile \in InitialStatsFiles
    /\ dailyStats = RiskServiceConstructor(statsFile)
    /\ riskCall = RiskCall("constructor", Allowed, 0, 0, dailyStats, statsFile)
    /\ evalCall = NoEval

RiskNext ==
    \/ Construct
    \/ CanPlaceTrade
    \/ RecordTrade
    \/ UpdateRealizedPnl
    \/ DayRollover

RiskSpec == RiskInit /\ [][RiskNext]_vars

-----------------------------------------------------------------------------
(* Properties of the capital ledger and of stake sizing, checked under      *)
(* SizingSpec                                                               *)

\* C1: for every strategy with a configured cap, the amount recorded as
\* committed to it is never negative and never exceeds the cap, after any
\* sequence of placeTrade calls.
C1_CommittedWithinCap ==
    \A strategy \in Strategies :
        getStrategyLimit(strategy) # Undefined
            => /\ strategyCapitalUsed[strategy] >= 0
               /\ strategyCapitalUsed[strategy] <= getStrategyLimit(strategy)

C1_Witness ==
    /\ lastCall.op = "placeTrade"
    /\ lastCall.strategy = "spread"
    /\ lastCall.success
    /\ lastCall.usedBefore > 0
    /\ lastCall.stake < 8000
    /\ lastCall.stake = getStrategyLimit("spread") - lastCall.usedBefore
    /\ strategyCapitalUsed["spread"] > lastCall.usedBefore

\* C9 as stated: the stake is the caller's desiredStake, else the configured
\* max bet, else the divergence; raised to $1; capped by the per-market limit and
\* by the strategy's remaining capital; below $1 the call is rejected as capital
\* exhausted.  Hence with a $100 cap and successive $80 requests on distinct
\* games the second call's stake is $20 and the third call is rejected.
C9_SecondStakeIsTwentyDollars ==
    LET earlier == {c \in successes : c.op < nCalls /\ c.strategy = lastCall.strategy}
    IN (/\ lastCall.op = "placeTrade"
        /\ lastCall.desiredStake = 8000
        /\ getStrategyLimit(lastCall.strategy) = 10000
        /\ tradingConfig.maxPerMarket = Undefined
        /\ \A c \in earlier : c.desiredStake = 8000)
           => /\ Cardinality(earlier) = 1 => lastCall.stake = 2000
              /\ Cardinality(earlier) = 2
                    => ~lastCall.success /\ lastCall.error = "Strategy capital exhausted"

\* C9 amended: the sizing order is as stated, and the strategy's remaining
\* capital is its cap less the spend registered so far, which is contracts times
\* price and not the stake asked for.  With a $100 cap and successive $80
\* requests on distinct games the second call's stake is $100 less the first
\* call's registered spend, and the third call is rejected as capital exhausted.
C9_StakeFollowsRegisteredSpend ==
    LET earlier == {c \in successes : c.op < nCalls /\ c.strategy = lastCall.strategy}
        limit == getStrategyLimit(lastCall.strategy)
        base == IF lastCall.desiredStake \notin {Undefined, Null} THEN lastCall.desiredStake
                ELSE IF tradingConfig.maxBetSize \notin {Undefined, Null}
                     THEN tradingConfig.maxBetSize
                     ELSE lastCall.differencePct
        floored == IF base < 100 THEN 100 ELSE base
        perMarket == IF tradingConfig.maxPerMarket # Undefined
                        /\ tradingConfig.maxPerMarket < floored
                     THEN tradingConfig.maxPerMarket ELSE floored
        remaining == IF limit = Undefined THEN Infinity
                     ELSE IF lastCall.usedBefore >= limit THEN 0
                     ELSE limit - lastCall.usedBefore
        expected == IF remaining < perMarket THEN remaining ELSE perMarket
    IN (lastCall.op = "placeTrade" /\ lastCall.error \notin EarlyRejections)
           => /\ lastCall.stake = expected
              /\ expected < 100
                    <=> ~lastCall.success /\ lastCall.error = "Strategy capital exhausted"
              /\ (/\ lastCall.desiredStake = 8000
                  /\ limit = 10000
                  /\ tradingConfig.maxPerMarket = Undefined
                  /\ \A c \in earlier : c.desiredStake = 8000)
                     => /\ \A c \in earlier :
                               Cardinality(earlier) = 1 => lastCall.stake = 10000 - c.spend
                        /\ Cardinality(earlier) = 2
                              => /\ ~lastCall.success
                                 /\ lastCall.error = "Strategy capital exhausted"

C9_Witness ==
    LET earlier == {c \in successes : c.op < nCalls /\ c.strategy = "arbitrage"}
    IN /\ lastCall.op = "placeTrade"
       /\ lastCall.strategy = "arbitrage"
       /\ lastCall.desiredStake = 8000
       /\ tradingConfig.maxPerMarket = Undefined
       /\ Cardinality(earlier) = 2
       /\ \E c \in earlier : c.desiredStake = 8000 /\ c.spend = 7980
       /\ \E c \in earlier : c.desiredStake = 8000 /\ c.spend = 2010
       /\ lastCall.error = "Strategy capital exhausted"
       /\ lastCall.stake = 10

\* C10: every order submitted to the venue has an integer limit price in
\* 1..99 and an integer quantity of at least 1.
C10_OrdersWithinVenueRange ==
    \A i \in DOMAIN lastCall.orders :
        /\ lastCall.orders[i].price \in 1..99
        /\ lastCall.orders[i].count >= 1
        /\ lastCall.orders[i].count < Infinity

-----------------------------------------------------------------------------
(* Properties of a run of the engine, checked under Spec *)

\* C2: once placeTrade has returned success for one side of a game, every
\* later placeTrade call of the run for the opposite side of that game is
\* rejected as a duplicate exposure (the code has two reason strings for it) and
\* submits no order, in live and in non-live mode.
C2_OppositeSideRejected ==
    (lastCall.op = "placeTrade" /\ lastCall.twinSucceeded)
        => /\ ~lastCall.success
           /\ lastCall.error \in {"Existing position found",
                                  "Game already traded in this run"}
           /\ lastCall.orders = << >>

C4_NoOrderWhenNotLive ==
    ~tradingConfig.liveTrades => createOrderCalls = << >>

\* C5: an entry order is submitted only after RiskService.canPlaceTrade has
\* been evaluated for it and has allowed it; an order that violates a configured
\* hard limit is never submitted.
C5_EntryPassesRiskGate ==
    \A i \in DOMAIN lastCall.orders :
        lastCall.orders[i].kind = "entry"
            => /\ riskCall.op = "canPlaceTrade"
               /\ riskCall.allowed
               /\ canPlaceTrade(DailyStats(getTodayDate, 0, 0, 0),
                                lastCall.orders[i].count * lastCall.orders[i].price,
                                0, 0, << >>).allowed

-----------------------------------------------------------------------------
(* Properties of the RiskService, checked under RiskSpec *)

\* C6: the daily counters that canPlaceTrade reads and that recordTrade and
\* updateRealizedPnl increment always belong to the current UTC day: after a
\* date change they are reset before they are next read or incremented, and
\* nothing of the previous day is carried over.
C6_CountersBelongToToday ==
    riskCall.op \in {"canPlaceTrade", "recordTrade", "updateRealizedPnl"}
        => riskCall.stats.date = riskCall.day

\* C7: a RiskService constructed when the persisted record carries another date
\* than the current UTC date starts with tradesCount, notionalSpent and
\* realizedPnl at zero under the current date, whatever the record held.
C7_StaleRecordStartsAtZero ==
    (/\ riskCall.op = "constructor"
     /\ riskCall.file \notin {MissingFile, CorruptFile}
     /\ riskCall.file.date # riskCall.day)
        => /\ dailyStats.date = riskCall.day
           /\ dailyStats.tradesCount = 0
           /\ dailyStats.notionalSpent = 0
           /\ dailyStats.realizedPnl = 0

C7_Witness ==
    /\ riskCall.op = "constructor"
    /\ riskCall.file \notin {MissingFile, CorruptFile}
    /\ riskCall.file.date # riskCall.day
    /\ riskCall.file.tradesCount > 0
    /\ riskCall.file.notionalSpent > 0
    /\ riskCall.file.realizedPnl # 0
    /\ dailyStats.tradesCount = 0

\* C8: canPlaceTrade denies exactly when at least one configured limit is
\* violated, and its reason is that of the first violated limit in the order
\* total positions, single-order notional, trades today, projected daily
\* notional, realized daily loss.
C8_DeniesOnFirstViolatedLimit ==
    riskCall.op = "canPlaceTrade" =>
        LET reasons == <<"Max positions limit reached", "Order notional exceeds max",
                         "Max daily trades reached", "Daily notional would exceed limit",
                         "Daily loss limit reached">>
            violated ==
                <<riskConfig.maxPositionsTotal # Undefined
                      /\ ~(riskCall.totalPositions < riskConfig.maxPositionsTotal),
                  riskConfig.maxOrderNotional # Undefined
                      /\ ~(riskCall.orderNotional <= riskConfig.maxOrderNotional),
                  riskConfig.maxDailyTrades # Undefined
                      /\ ~(riskCall.stats.tradesCount < riskConfig.maxDailyTrades),
                  riskConfig.maxDailyNotional # Undefined
                      /\ ~(riskCall.stats.notionalSpent + riskCall.orderNotional
                               <= riskConfig.maxDailyNotional),
                  riskConfig.maxDailyLoss # Undefined
                      /\ ~(riskCall.stats.realizedPnl + riskConfig.maxDailyLoss > 0)>>
            hits == {i \in 1..5 : violated[i]}
        IN /\ riskCall.allowed <=> hits = {}
           /\ hits # {} => \E i \in hits : /\ \A j \in hits : i <= j
                                           /\ riskCall.reason = reasons[i]
           /\ hits = {} => riskCall.reason = "none"

C8_Witness ==
    /\ riskCall.op = "canPlaceTrade"
    /\ ~riskCall.allowed
    /\ riskCall.reason = "Order notional exceeds max"
    /\ riskConfig.maxDailyTrades # Undefined
    /\ riskCall.stats.tradesCount >= riskConfig.maxDailyTrades
    /\ riskConfig.maxDailyLoss # Undefined
    /\ riskCall.stats.realizedPnl <= 0 - riskConfig.maxDailyLoss

-----------------------------------------------------------------------------
(* A run of the position manager *)

MaxPositionOps == 2

ManagePositions ==
    \* entry 40 by average price, entry 40 by total cost, and no entry price
    LET HeldPositions ==
            {HeldPosition(T_NBA_OKC, 5, "yes", 100000, 40, Null),
             HeldPosition(T_NBA_OKC, 5, "yes", 199000, 40, Null),
             HeldPosition(T_NBA_OKC, 5, "no", 199000, Null, 200),
             HeldPosition(T_NBA_OKC, 5, "yes", 0, Null, Null),
             HeldPosition(T_NBA_OKC, 0, "yes", 100000, 40, Null)}
        HeldOrderSnapshots ==
            {<< >>, <<Order(T_NBA_OKC, "sell", "resting", 3)>>,
             <<Order(T_NBA_OKC, "sell", "pending", 5)>>}
        \* bid 43 with the last trade at 41, at 44 and absent; a fall to 30; no market
        HeldMarkets ==
            {Quote(45, 43, 57, 55, 41), Quote(45, 43, 57, 55, 44), Quote(45, 43, 57, 55, Null),
             Quote(32, 30, 70, 68, 30), NoMarket("missing")}
    IN
    /\ nCalls < MaxPositionOps
    /\ \E pos \in HeldPositions, activeOrders \in HeldOrderSnapshots,
          market \in HeldMarkets, nowSec \in {200000}, create \in {"ok", "error"} :
         LET submitted ==
                 managePositions(<<pos>>, activeOrders, market, nowSec, create, nCalls + 1)
         IN /\ (submitted = << >> => create = "ok")
            /\ createOrderCalls' =
                   createOrderCalls \o [i \in 1..Len(submitted) |-> LogEntry(submitted[i])]
            /\ lastCall' = [NoCall EXCEPT !.op = "managePositions", !.ticker = pos.ticker,
                                          !.success = TRUE, !.orders = submitted]
            /\ evalCall' = [fn |-> "evaluatePositionExit", position |-> pos,
                            alreadyOffered |-> RestingSellQty(pos.ticker, activeOrders),
                            market |-> market, nowSec |-> nowSec,
                            result |-> evaluatePositionExit(pos, activeOrders, market, nowSec)]
    /\ nCalls' = nCalls + 1
    /\ UNCHANGED <<tradingConfig, hasKalshiClient, tradedGameKeys, strategyCapitalUsed,
                   successes>>
    /\ UNCHANGED riskVars

PositionInit ==
    \* config.risk exit rules as the environment can set them
    LET ExitRuleConfigs ==
            {[EngineRiskConfig EXCEPT !.takeProfitCentsPerContract = r[1],
                                      !.takeProfitPctOfCost = r[2],
                                      !.stopLossPct = r[3],
                                      !.maxHoldMinutes = r[4]] :
                r \in {<<2, 10, Undefined, 180>>, <<2, 10, 20, 180>>,
                       <<Undefined, 5, 20, 180>>, <<Undefined, Undefined, 20, Undefined>>}}
    IN
    /\ tradingConfig \in {c \in TradingConfigs : c.maxBetSize = Undefined}
    /\ hasKalshiClient = TRUE
    /\ tradedGameKeys = {}
    /\ strategyCapitalUsed = InitialLedger
    /\ createOrderCalls = << >>
    /\ successes = {}
    /\ lastCall = NoCall
    /\ nCalls = 0
    /\ riskConfig \in ExitRuleConfigs
    /\ today = 1
    /\ statsFile = MissingFile
    /\ dailyStats = NoStats
    /\ riskCall = NoRiskCall
    /\ evalCall = NoEval

PositionSpec == PositionInit /\ [][ManagePositions]_vars

-----------------------------------------------------------------------------
(* placeTrade against the account's existing exposure *)

MaxExposureOps == 1

ExposurePlaceTrade ==
    LET ExposureTickers == {T_CBA_GDS, T_NCAAF_TXAM, T_NFL_TB}
        ExposurePositions ==
            {<< >>, <<Position(T_CBA_GDS, 5, "yes", 0)>>, <<Position(T_CBA_LN, 0 - 5, "no", 0)>>,
             <<Position(T_CBA_LN, 0, "yes", 0)>>, <<Position(T_NCAAF_VAN, 5, "yes", 0)>>,
             <<Position(T_NHL_TB, 5, "yes", 0)>>}
        ExposureOrders ==
            {<< >>, <<Order(T_CBA_LN, "sell", "resting", 3)>>, <<Order(T_CBA_GDS, "buy", "pending", 2)>>,
             <<Order(T_CBA_LN, "buy", "resting", 0)>>, <<Order(T_CBA_LN, "buy", "canceled", 3)>>}
        \* the caller's positions and orders, and whether the venue answers the refresh
        ExposureSnapshots ==
            {<<p, o, refresh>> : p \in ExposurePositions, o \in ExposureOrders,
                                 refresh \in {"ok", "fail"}}
    IN
    /\ nCalls < MaxExposureOps
    /\ \E snapshot \in ExposureSnapshots :
         /\ PlaceTradeWith(ExposureTickers, {snapshot}, {FALSE}, EngineMarkets, {30},
                           {<<Undefined, 1250>>}, {"ok", "error"})
         /\ evalCall' = [fn |-> "placeTrade", activePositions |-> snapshot[1],
                         activeOrders |-> snapshot[2], refresh |-> snapshot[3],
                         ordersInUse |-> refreshedActiveOrders(RunState.calls, snapshot[2],
                                                               snapshot[2], snapshot[3]),
                         usedBefore |-> strategyCapitalUsed,
                         callsBefore |-> Len(createOrderCalls)]
    /\ UNCHANGED <<tradingConfig, hasKalshiClient>>
    /\ UNCHANGED riskVars

ExposureInit ==
    /\ tradingConfig \in {c \in TradingConfigs : c.maxBetSize = Undefined}
    /\ hasKalshiClient \in BOOLEAN
    /\ tradedGameKeys = {}
    /\ strategyCapitalUsed = InitialLedger
    /\ createOrderCalls = << >>
    /\ successes = {}
    /\ lastCall = NoCall
    /\ nCalls = 0
    /\ riskConfig = EngineRiskConfig
    /\ today = 1
    /\ statsFile = MissingFile
    /\ dailyStats = NoStats
    /\ riskCall = NoRiskCall
    /\ evalCall = NoEval

ExposureSpec == ExposureInit /\ [][ExposurePlaceTrade]_vars

-----------------------------------------------------------------------------
(* The detectors as functions of their inputs: each behaviour evaluates     *)
(* one of them once                                                         *)

DetectorInit ==
    /\ tradingConfig \in {c \in TradingConfigs : c.maxBetSize = Undefined /\ c.liveTrades}
    /\ hasKalshiClient = TRUE
    /\ tradedGameKeys = {}
    /\ strategyCapitalUsed = InitialLedger
    /\ createOrderCalls = << >>
    /\ successes = {}
    /\ lastCall = NoCall
    /\ nCalls = 0
    /\ riskConfig = EngineRiskConfig
    /\ today = 1
    /\ statsFile = MissingFile
    /\ dailyStats = NoStats
    /\ riskCall = NoRiskCall
    /\ evalCall = NoEval

ImpliedProbabilityFromKalshiPrice ==
    LET KalshiPrices == 0..100
    IN
    /\ evalCall.fn = "none"
    /\ \E p1 \in KalshiPrices, p2 \in KalshiPrices :
         evalCall' = [fn |-> "impliedProbabilityFromKalshiPrice", p1 |-> p1, p2 |-> p2,
                      r1 |-> impliedProbabilityFromKalshiPrice(p1),
                      r2 |-> impliedProbabilityFromKalshiPrice(p2)]
    /\ UNCHANGED <<tradingVars, nCalls, riskVars>>

FindMispricings ==
    LET QuoteProbs == {Undefined, 300, 400, 550}
        ReferenceProbs == {Undefined, 420, 450, 500}
        \* the venue game, and reference entries for it in the venue's order
        \* of the teams, in the opposite order, and for another game
        game == [awayTeam |-> "MIN", homeTeam |-> "OKC"]
        Entries == {EspnOdds(teams[1], teams[2], h, a) :
                       teams \in {<<"MIN", "OKC">>, <<"OKC", "MIN">>, <<"ARI", "TB">>},
                       h \in ReferenceProbs, a \in ReferenceProbs}
    IN
    /\ evalCall.fn = "none"
    /\ \E kalshiHome \in QuoteProbs, kalshiAway \in QuoteProbs,
          espnOdds \in {<< >>} \cup {<<o>> : o \in Entries}
                               \cup {<<o, p>> : o \in Entries, p \in Entries} :
         LET espn == matchEspnOdds({<<game.awayTeam, game.homeTeam>>},
                                   <<game.awayTeam, game.homeTeam>>, espnOdds)
         IN evalCall' = [fn |-> "findMispricings", game |-> game,
                         kalshiHome |-> kalshiHome, kalshiAway |-> kalshiAway,
                         espnOdds |-> espnOdds, espn |-> espn,
                         mispricings |-> findMispricings(kalshiHome, kalshiAway, espn)]
    /\ UNCHANGED <<tradingVars, nCalls, riskVars>>

\* the three same-game checks of placeTrade, asked about one symbol of an
\* event when the account's exposure is on the other
SameGameChecks ==
    \* the two symbols of one event: same series, same date+team block, the side
    \* code of either team at the end.  KXNCAAFGAME-25NOV29TXA-MVAN is Texas A&M
    \* (TXA-M) at Vanderbilt (VAN).
    LET EventPairs ==
            {<<T_NBA_OKC, T_NBA_MIN>>, <<T_NBA_MIN, T_NBA_OKC>>,
             <<T_CBA_GDS, T_CBA_LN>>, <<T_CBA_LN, T_CBA_GDS>>,
             <<T_NCAAF_TXAM, T_NCAAF_VAN>>, <<T_NCAAF_VAN, T_NCAAF_TXAM>>}
    IN
    /\ evalCall.fn = "none"
    /\ \E pair \in EventPairs, count \in {1, 5} :
         LET held == pair[1]
             asked == pair[2]
             gameKey == getGameKeyFromTicker(asked)
         IN evalCall' =
              [fn |-> "sameGameChecks", held |-> held, asked |-> asked,
               heldKey |-> getGameKeyFromTicker(held), askedKey |-> gameKey,
               position |-> findExistingPositionForMarket(
                                asked, <<Position(held, count, "yes", 0)>>) # 0,
               pending |-> hasPendingOrder(
                                asked, <<Order(held, "buy", "resting", count)>>),
               traded |-> /\ gameKey # NoGameKey
                          /\ gameKey \in markTraded({}, getGameKeyFromTicker(held))]
    /\ UNCHANGED <<tradingVars, nCalls, riskVars>>

FindArbitrageBundles ==
    \* the parsed markets of up to three games, each side quoted or not
    LET ArbitrageGames == <<"G1", "G2", "G3">>
        HomeProbs == {Undefined, 380, 400, 440}
        AwayProbs == {Undefined, 550, 600}
        FeeBuffers == {0, 10, 20}
        marketsOf(gameId, homeProb, awayProb) ==
            (IF homeProb = Undefined THEN << >> ELSE <<Market(gameId, "home", homeProb)>>)
            \o (IF awayProb = Undefined THEN << >> ELSE <<Market(gameId, "away", awayProb)>>)
    IN
    /\ evalCall.fn = "none"
    /\ \E h \in [1..Len(ArbitrageGames) -> HomeProbs],
          a \in [1..Len(ArbitrageGames) -> AwayProbs], feeBuffer \in FeeBuffers :
         LET markets == marketsOf(ArbitrageGames[1], h[1], a[1])
                        \o marketsOf(ArbitrageGames[2], h[2], a[2])
                        \o marketsOf(ArbitrageGames[3], h[3], a[3])
         IN evalCall' = [fn |-> "findArbitrageBundles", markets |-> markets,
                         feeBuffer |-> feeBuffer,
                         bundles |-> findArbitrageBundles(markets, feeBuffer)]
    /\ UNCHANGED <<tradingVars, nCalls, riskVars>>

ParseMarkets ==
    \* the two markets of one event, the away team's first: Minnesota at Oklahoma
    \* City (NBA), James Madison at George Mason (NCAAB), Ball State at Miami of
    \* Ohio (NCAAF, whose code is M-OH)
    LET RawEvents ==
            {<<"nba", "KXNBAGAME", "25NOV26", <<"M", "I", "N", "O", "K", "C">>, <<"M", "I", "N", "O", "K", "C", "-", "M", "I", "N">>, <<"M", "I", "N", "O", "K", "C", "-", "O", "K", "C">>>>,
             <<"ncaab", "KXNCAAMBGAME", "25NOV29", <<"J", "M", "U", "G", "M", "U">>, <<"J", "M", "U", "G", "M", "U", "-", "J", "M", "U">>, <<"J", "M", "U", "G", "M", "U", "-", "G", "M", "U">>>>,
             <<"ncaaf", "KXNCAAFGAME", "25NOV29", <<"B", "A", "L", "L", "M", "-", "O", "H">>, <<"B", "A", "L", "L", "M", "-", "O", "H", "-", "B", "A", "L", "L">>, <<"B", "A", "L", "L", "M", "-", "O", "H", "-", "M", "-", "O", "H">>>>}
        RawPrices == {40, 55, Null}
    IN
    /\ evalCall.fn = "none"
    /\ \E ev \in RawEvents, awayPrice \in RawPrices, homePrice \in RawPrices :
         LET rawMarkets == <<RawMarket(ev[1], ev[2], ev[3], ev[4], ev[5], awayPrice),
                             RawMarket(ev[1], ev[2], ev[3], ev[4], ev[6], homePrice)>>
             markets == parseMarkets(rawMarkets)
         IN evalCall' = [fn |-> "parseMarkets", rawMarkets |-> rawMarkets,
                         awayGame |-> extractGameInfo(rawMarkets[1]),
                         homeGame |-> extractGameInfo(rawMarkets[2]),
                         markets |-> markets,
                         games |-> byGameKeys(markets),
                         bundles |-> findArbitrageBundles(markets, 10)]
    /\ UNCHANGED <<tradingVars, nCalls, riskVars>>

DetectorNext ==
    \/ ImpliedProbabilityFromKalshiPrice
    \/ FindMispricings
    \/ SameGameChecks
    \/ FindArbitrageBundles
    \/ ParseMarkets

DetectorSpec == DetectorInit /\ [][DetectorNext]_vars

-----------------------------------------------------------------------------
(* Properties of the detectors, checked under DetectorSpec *)

\* C11: for every whole price in cents from 0 to 100 the implied probability
\* lies in [0.001, 0.999], and it is monotonic non-decreasing in the price.
C11_ImpliedProbabilityMonotonic ==
    evalCall.fn = "impliedProbabilityFromKalshiPrice"
        => /\ evalCall.r1 \in 1..999
           /\ evalCall.r2 \in 1..999
           /\ evalCall.p1 <= evalCall.p2 => evalCall.r1 <= evalCall.r2

\* C12: findMispricings flags a side exactly when its divergence in
\* percentage points, less the configured minimum edge after cost, reaches the
\* threshold.
C12_FlaggedNetOfMinimumEdge ==
    evalCall.fn = "findMispricings" =>
        \A side \in {"home", "away"} :
            LET quote == IF side = "home" THEN evalCall.kalshiHome ELSE evalCall.kalshiAway
                ref == IF side = "home" THEN evalCall.espn.homeImpliedProbability
                       ELSE evalCall.espn.awayImpliedProbability
                raw == IF quote >= ref THEN quote - ref ELSE ref - quote
                flagged == \E i \in DOMAIN evalCall.mispricings :
                               evalCall.mispricings[i].side = side
            IN (evalCall.espn.matched /\ quote # Undefined /\ ref # Undefined)
                   => (flagged <=> raw - BotConfig.minEdgeAfterCostsPct
                                       >= BotConfig.mispricingThresholdPct)

\* C13: the two symbols of one event give the same non-null game key, and the
\* position, pending-order and traded-set checks each recognise one symbol as
\* the game of the other, for every symbol grammar, hyphenated team codes
\* included.
C13_SameEventSameGameKey ==
    evalCall.fn = "sameGameChecks"
        => /\ evalCall.heldKey # NoGameKey
           /\ evalCall.heldKey = evalCall.askedKey
           /\ evalCall.position
           /\ evalCall.pending
           /\ evalCall.traded

\* C17: findArbitrageBundles returns exactly the games that have a home quote
\* and an away quote whose probabilities sum to less than 1 - feeBuffer, each
\* once, with edgePct = (1 - feeBuffer - sum) * 100, highest edgePct first.
C17_BundlesAreTheUnderpricedGames ==
    evalCall.fn = "findArbitrageBundles" =>
        LET ms == evalCall.markets
            bs == evalCall.bundles
            quote(g, side) == CHOOSE i \in 1..Len(ms) : ms[i].gameId = g /\ ms[i].side = side
            has(g, side) == \E i \in 1..Len(ms) : ms[i].gameId = g /\ ms[i].side = side
            sum(g) == ms[quote(g, "home")].impliedProbability
                          + ms[quote(g, "away")].impliedProbability
            underpriced == {g \in {ms[i].gameId : i \in 1..Len(ms)} :
                               /\ has(g, "home") /\ has(g, "away")
                               /\ sum(g) < 1000 - evalCall.feeBuffer}
        IN /\ {bs[k].gameId : k \in 1..Len(bs)} = underpriced
           /\ Len(bs) = Cardinality(underpriced)
           /\ \A k \in 1..Len(bs) : bs[k].edgePct = 1000 - evalCall.feeBuffer - sum(bs[k].gameId)
           /\ \A k \in 1..Len(bs) - 1 : bs[k].edgePct >= bs[k + 1].edgePct

\* 0.40 and 0.55 with a buffer of 0.01 give an edge of 4.0, listed after a
\* game seen later whose edge is larger, while a game summing to 0.99 is left out
C17_Witness ==
    /\ evalCall.fn = "findArbitrageBundles"
    /\ evalCall.feeBuffer = 10
    /\ Len(evalCall.bundles) = 2
    /\ evalCall.bundles[1].gameId = "G3"
    /\ evalCall.bundles[2].gameId = "G1"
    /\ evalCall.bundles[2].totalProb = 950
    /\ evalCall.bundles[2].edgePct = 40
    /\ \E i, j \in 1..Len(evalCall.markets) :
          /\ evalCall.markets[i].gameId = "G2" /\ evalCall.markets[i].side = "home"
          /\ evalCall.markets[j].gameId = "G2" /\ evalCall.markets[j].side = "away"
          /\ evalCall.markets[i].impliedProbability
                 + evalCall.markets[j].impliedProbability = 990

\* C18: the game resolved from the home side's symbol and the game resolved
\* from the away side's symbol of one event are the same (id, home team, away
\* team), for the college series too, so the two quotes fall under one game,
\* one as home and one as away.
C18_OneGamePerEvent ==
    (/\ evalCall.fn = "parseMarkets"
     /\ evalCall.awayGame.ok
     /\ evalCall.homeGame.ok) =>
        /\ evalCall.awayGame = evalCall.homeGame
        /\ Len(evalCall.markets) = 2
              => /\ Len(evalCall.games) = 1
                 /\ {evalCall.markets[1].side, evalCall.markets[2].side} = {"home", "away"}

-----------------------------------------------------------------------------
(* Properties of the position manager, checked under PositionSpec *)

\* C14: once a position's prices and entry price are known, the exit rules are
\* tried in the order take-profit in cents per contract, take-profit in percent
\* of cost, stop-loss in percent of cost, maximum hold time; the decision and
\* reason are those of the first rule that matches, and there is no exit when
\* none matches.
C14_FirstMatchingRuleDecides ==
    (evalCall.fn = "evaluatePositionExit" /\ evalCall.result.evaluated) =>
        LET r == evalCall.result
            gain == r.currentPrice - r.entryPriceCents
            tpCents == /\ riskConfig.takeProfitCentsPerContract # Undefined
                       /\ gain >= riskConfig.takeProfitCentsPerContract
            tpPct == /\ riskConfig.takeProfitPctOfCost # Undefined
                     /\ gain * 100 >= riskConfig.takeProfitPctOfCost * r.entryPriceCents
            stopLoss == /\ riskConfig.stopLossPct # Undefined
                        /\ gain * 100 <= (0 - riskConfig.stopLossPct) * r.entryPriceCents
            maxHold == /\ riskConfig.maxHoldMinutes # Undefined
                       /\ evalCall.position.open_ts # 0
                       /\ evalCall.nowSec - evalCall.position.open_ts
                              >= riskConfig.maxHoldMinutes * 60
        IN /\ r.shouldExit <=> (tpCents \/ tpPct \/ stopLoss \/ maxHold)
           /\ r.reason = IF tpCents THEN "TP cents/contract"
                         ELSE IF tpPct THEN "TP % of cost"
                         ELSE IF stopLoss THEN "SL % loss"
                         ELSE IF maxHold THEN "Max hold time"
                         ELSE "none"

\* a position past its hold time whose gain also meets both take-profit rules
\* exits on the cents rule
C14_Witness ==
    /\ evalCall.fn = "evaluatePositionExit"
    /\ evalCall.result.reason = "TP cents/contract"
    /\ riskConfig.takeProfitPctOfCost # Undefined
    /\ (evalCall.result.currentPrice - evalCall.result.entryPriceCents) * 100
           >= riskConfig.takeProfitPctOfCost * evalCall.result.entryPriceCents
    /\ riskConfig.maxHoldMinutes # Undefined
    /\ evalCall.position.open_ts # 0
    /\ evalCall.nowSec - evalCall.position.open_ts >= riskConfig.maxHoldMinutes * 60

\* C15: the take-profit rule in cents measures profit as the held side's best
\* bid minus the entry price: when that difference reaches the configured
\* cents, the position exits at the best bid with that profit per contract,
\* whatever the last traded price.
C15_TakeProfitMeasuredAtBestBid ==
    (/\ evalCall.fn = "evaluatePositionExit"
     /\ evalCall.result.evaluated
     /\ riskConfig.takeProfitCentsPerContract # Undefined) =>
        LET r == evalCall.result
            bestBid == exitBestBid(evalCall.position.market_result = "yes", evalCall.market)
        IN bestBid - r.entryPriceCents >= riskConfig.takeProfitCentsPerContract
              => /\ r.shouldExit
                 /\ r.reason = "TP cents/contract"
                 /\ r.exitPrice = bestBid
                 /\ r.profitCents = bestBid - r.entryPriceCents

\* C16: an exit order is for the position's quantity less the remaining
\* quantity of its resting or pending sell orders, and none is placed when
\* that difference is zero or negative.
C16_ExitOrderForUnofferedQuantity ==
    lastCall.op = "managePositions" =>
        LET qtyToExit == evalCall.position.position - evalCall.alreadyOffered
        IN /\ qtyToExit <= 0 => lastCall.orders = << >>
           /\ \A i \in 1..Len(lastCall.orders) : lastCall.orders[i].count = qtyToExit

-----------------------------------------------------------------------------
(* Properties of placeTrade against existing exposure, checked under        *)
(* ExposureSpec                                                             *)

\* C19: placeTrade submits no order and registers no spend when the positions
\* snapshot holds a nonzero position, or the order list it uses holds a resting
\* or pending order with remaining quantity above zero, on the symbol itself
\* or on a symbol with the same game key.
C19_NoEntryOverExistingExposure ==
    (lastCall.op = "placeTrade" /\ evalCall.fn = "placeTrade") =>
        LET sameGame(u) ==
                \/ u = lastCall.ticker
                \/ /\ getGameKeyFromTicker(u) # NoGameKey
                   /\ getGameKeyFromTicker(u) = getGameKeyFromTicker(lastCall.ticker)
            held == \E i \in 1..Len(evalCall.activePositions) :
                       /\ evalCall.activePositions[i].position # 0
                       /\ sameGame(evalCall.activePositions[i].ticker)
            open == \E i \in 1..Len(evalCall.ordersInUse) :
                       /\ evalCall.ordersInUse[i].status \in {"resting", "pending"}
                       /\ evalCall.ordersInUse[i].remaining_count > 0
                       /\ sameGame(evalCall.ordersInUse[i].ticker)
        IN (held \/ open)
              => /\ ~lastCall.success
                 /\ lastCall.orders = << >>
                 /\ Len(createOrderCalls) = evalCall.callsBefore
                 /\ strategyCapitalUsed = evalCall.usedBefore

\* a live entry on one side of a game is turned away for the resting order on
\* the other side
C19_Witness ==
    /\ lastCall.op = "placeTrade"
    /\ evalCall.fn = "placeTrade"
    /\ tradingConfig.liveTrades
    /\ lastCall.ticker = T_CBA_GDS
    /\ evalCall.activePositions = << >>
    /\ evalCall.ordersInUse = <<Order(T_CBA_LN, "sell", "resting", 3)>>
    /\ lastCall.error = "Pending order found"
    /\ createOrderCalls = << >>

\* C20: when the refresh of open orders inside placeTrade fails, the pending
\* order check uses the caller's snapshot, so a resting order of the same game
\* in that snapshot still rejects the trade.
C20_FailedRefreshFallsBackToSnapshot ==
    (/\ lastCall.op = "placeTrade"
     /\ evalCall.fn = "placeTrade"
     /\ hasKalshiClient
     /\ evalCall.refresh = "fail"
     /\ \E i \in 1..Len(evalCall.activeOrders) :
           /\ evalCall.activeOrders[i].status = "resting"
           /\ evalCall.activeOrders[i].remaining_count > 0
           /\ isSameGameTicker(evalCall.activeOrders[i].ticker, lastCall.ticker))
        => /\ ~lastCall.success
           /\ lastCall.orders = << >>

-----------------------------------------------------------------------------
(* Further properties of the engine run, checked under Spec *)

\* C21: a placeTrade call that returns success=false, by a rejection or by a
\* failed or empty order submission, leaves the strategy ledger and the set of
\* traded games as they were, and no call attempts more than one entry order.
C21_FailureLeavesRunStateUntouched ==
    [][lastCall'.op = "placeTrade" =>
          /\ ~lastCall'.success => /\ strategyCapitalUsed' = strategyCapitalUsed
                                   /\ tradedGameKeys' = tradedGameKeys
          /\ Cardinality({i \in (Len(createOrderCalls) + 1)..Len(createOrderCalls') :
                             createOrderCalls'[i].kind = "entry"}) <= 1]_vars

\* an entry whose submission fails after an earlier entry of the run succeeded
C21_Witness ==
    /\ lastCall.op = "placeTrade"
    /\ ~lastCall.success
    /\ Len(lastCall.orders) = 1
    /\ lastCall.orders[1].outcome \in {"error", "empty"}
    /\ tradedGameKeys # {}
    /\ strategyCapitalUsed # InitialLedger

\* C22: in live mode the companion take-profit sell follows a successful entry
\* exactly when the strategy is spread; when the companion submission fails the
\* call still returns success, the game is marked traded and the entry's spend
\* is registered.
C22_CompanionFailureKeepsEntry ==
    lastCall.op = "placeTrade" =>
        LET orders == lastCall.orders
            companion == {i \in DOMAIN orders : orders[i].kind = "spread-tp"}
            gameKey == getGameKeyFromTicker(lastCall.ticker)
        IN /\ companion # {}
                <=> (tradingConfig.liveTrades /\ lastCall.success
                        /\ lastCall.strategy = "spread")
           /\ companion # {}
                => /\ companion = {2}
                   /\ orders[1].kind = "entry"
                   /\ orders[1].outcome \in {"ok", "filled"}
           /\ (\E i \in companion : orders[i].outcome = "error")
                => /\ lastCall.success
                   /\ gameKey # NoGameKey => gameKey \in tradedGameKeys
                   /\ lastCall.spend > 0
                   /\ strategyCapitalUsed[lastCall.strategy]
                          = lastCall.usedBefore + lastCall.spend

C22_Witness ==
    /\ lastCall.op = "placeTrade"
    /\ lastCall.strategy = "spread"
    /\ Len(lastCall.orders) = 2
    /\ lastCall.orders[2].kind = "spread-tp"
    /\ lastCall.orders[2].outcome = "error"
    /\ lastCall.success
    /\ getGameKeyFromTicker(lastCall.ticker) \in tradedGameKeys

-----------------------------------------------------------------------------
(* Idempotency tokens of the orders of a run.  A token is the tuple of the  *)
(* pieces of the template string: the hyphen-separated prefix and the       *)
(* reading of Date.now() in milliseconds.  evalCall holds the last clock    *)
(* reading and the tokens sent so far.                                      *)

MaxIdOps == 2

clientOrderId(prefix, now) == prefix \o <<now>>

\* placeTrade; the clock is read when an order is built and has not gone
\* back since the reading before
IdPlaceTrade ==
    /\ nCalls < MaxIdOps
    /\ PlaceTradeWith({T_NBA_OKC, T_NFL_TB}, {<< << >>, << >>, "ok" >>}, {FALSE},
                      EngineMarkets, {30}, {<<Undefined, 1250>>}, {"ok", "error"})
    /\ \E entryNow \in evalCall.now..(evalCall.now + 1) :
       \E tpNow \in entryNow..(entryNow + 1) :
         LET orders == lastCall'.orders
             ids == [i \in 1..Len(orders) |->
                        IF orders[i].kind = "entry"
                        THEN clientOrderId(<<lastCall'.strategy, "entry">>, entryNow)
                        ELSE clientOrderId(<<"spread", "tp">>, tpNow)]
         IN evalCall' = [fn |-> "createOrder",
                         now |-> CASE Len(orders) = 0 -> evalCall.now
                                   [] Len(orders) = 1 -> entryNow
                                   [] OTHER -> tpNow,
                         client_order_ids |-> evalCall.client_order_ids \o ids]
    /\ UNCHANGED <<tradingConfig, hasKalshiClient, riskVars>>

\* PositionManager.placeExitOrder
IdPlaceExitOrder ==
    /\ nCalls < MaxIdOps
    /\ \E pos \in {Position(T_CBA_GDS, 5, "yes", 100000),
                   Position(T_NBA_OKC, 5, "no", 100000)},
          create \in {"ok", "error"},
          now \in evalCall.now..(evalCall.now + 1) :
         LET submitted == exitOrderCalls(pos, 30, create, nCalls + 1)
         IN /\ createOrderCalls' = createOrderCalls
                   \o [i \in 1..Len(submitted) |-> LogEntry(submitted[i])]
            /\ lastCall' = [NoCall EXCEPT !.op = "placeExitOrder", !.ticker = pos.ticker,
                                          !.success = TRUE, !.orders = submitted]
            /\ evalCall' = [fn |-> "createOrder",
                            now |-> IF submitted = << >> THEN evalCall.now ELSE now,
                            client_order_ids |-> evalCall.client_order_ids
                                \o [i \in 1..Len(submitted) |->
                                       clientOrderId(<<"exit">>, now)]]
    /\ nCalls' = nCalls + 1
    /\ UNCHANGED <<tradingConfig, hasKalshiClient, tradedGameKeys, strategyCapitalUsed,
                   successes, riskVars>>

IdInit ==
    /\ tradingConfig \in {c \in TradingConfigs : c.maxBetSize = Undefined}
    /\ hasKalshiClient = TRUE
    /\ tradedGameKeys = {}
    /\ strategyCapitalUsed = InitialLedger
    /\ createOrderCalls = << >>
    /\ successes = {}
    /\ lastCall = NoCall
    /\ nCalls = 0
    /\ riskConfig = EngineRiskConfig
    /\ today = 1
    /\ statsFile = MissingFile
    /\ dailyStats = NoStats
    /\ riskCall = NoRiskCall
    /\ evalCall = [fn |-> "createOrder", now |-> 0, client_order_ids |-> << >>]

IdSpec == IdInit /\ [][IdPlaceTrade \/ IdPlaceExitOrder]_vars

\* C23: any two orders submitted within one process run carry different
\* idempotency tokens, two orders of the same kind submitted within the same
\* clock millisecond included.
C23_DistinctClientOrderIds ==
    \A i, j \in DOMAIN evalCall.client_order_ids :
        i # j => evalCall.client_order_ids[i] # evalCall.client_order_ids[j]

-----------------------------------------------------------------------------
(* Scheduled cycles of one process: main runs runMispricingCheck once and   *)
(* then on every tick of the schedule.  successes and createOrderCalls are  *)
(* what the process has done and what the venue has received; they are not  *)
(* fields of the service.                                                   *)

MaxCycleOps == 3

\* the start of a cycle: runMispricingCheck builds its own TradingService
RunMispricingCheck ==
    /\ nCalls < MaxCycleOps
    /\ tradedGameKeys' = {}
    /\ strategyCapitalUsed' = InitialLedger
    /\ lastCall' = [NoCall EXCEPT !.op = "runMispricingCheck"]
    /\ nCalls' = nCalls + 1
    /\ UNCHANGED <<tradingConfig, hasKalshiClient, createOrderCalls, successes>>
    /\ UNCHANGED <<riskVars, evalCall>>

\* a placeTrade of the current cycle
CyclePlaceTrade ==
    /\ nCalls < MaxCycleOps
    /\ PlaceTradeWith({T_CBA_GDS, T_NCAAF_TXAM, T_NBA_OKC}, {<< << >>, << >>, "ok" >>},
                      {FALSE}, EngineMarkets, {30}, {<<Undefined, 1250>>},
                      {"ok", "filled", "error"})
    /\ UNCHANGED <<tradingConfig, hasKalshiClient>>
    /\ UNCHANGED <<riskVars, evalCall>>

CycleSpec == Init /\ [][RunMispricingCheck \/ CyclePlaceTrade]_vars

\* C24: the ledger and the traded-game set live as long as the process: what
\* placeTrade finds in the ledger is what the process has spent for the
\* strategy so far, in whatever cycle, and every game the process has entered
\* in live mode is in the traded-game set.
C24_LedgerOutlivesCycles ==
    lastCall.op = "placeTrade" =>
        LET earlier == {c \in successes : c.op < nCalls /\ c.strategy = lastCall.strategy}
            Spent[i \in 0..nCalls] ==
                IF i = 0 THEN 0
                ELSE Spent[i - 1]
                     + (IF \E c \in earlier : c.op = i
                        THEN (CHOOSE c \in earlier : c.op = i).spend ELSE 0)
        IN /\ lastCall.usedBefore = Spent[nCalls]
           /\ tradingConfig.liveTrades
                => \A c \in successes :
                      getGameKeyFromTicker(c.ticker) # NoGameKey
                        => getGameKeyFromTicker(c.ticker) \in tradedGameKeys

-----------------------------------------------------------------------------
(* placeTrade calls in flight on one TradingService.  A call runs from its  *)
(* start to its first await, from the answers of getActiveOrders and        *)
(* getMarkets to createOrder, and from the answer of createOrder to its     *)
(* return; other calls run in between.  evalCall holds the calls in flight: *)
(* where each one waits, its arguments and what it has read so far.         *)

MaxInFlight == 2

\* the start of call c: the traded-game check, then the await of the refresh
BeginPlaceTrade ==
    \E c \in 1..MaxInFlight, strategy \in {"spread", "mispricing"},
       ticker \in {T_CBA_GDS, T_CBA_LN, T_NBA_OKC} :
      LET a == [strategy |-> strategy, ticker |-> ticker, isKalshiOvervaluing |-> FALSE,
                kalshiPrice |-> 50, differencePct |-> 1250, activePositions |-> << >>,
                activeOrders |-> << >>, desiredStake |-> Undefined]
          gameKey == getGameKeyFromTicker(ticker)
          rejected == gameKey # NoGameKey /\ gameKey \in tradedGameKeys
      IN /\ evalCall.inFlight[c].pc = "idle"
         /\ evalCall' = [evalCall EXCEPT !.inFlight[c] =
                            [pc |-> IF rejected THEN "done" ELSE "awaitMarket",
                             a |-> a, S |-> RunState]]
         /\ lastCall' = IF rejected
                        THEN [NoCall EXCEPT !.op = "placeTrade", !.strategy = strategy,
                                            !.ticker = ticker,
                                            !.error = "Game already traded in this run"]
                        ELSE lastCall
         /\ nCalls' = nCalls + 1
         /\ UNCHANGED <<tradingConfig, hasKalshiClient, tradedGameKeys,
                        strategyCapitalUsed, createOrderCalls, successes, riskVars>>

\* the order list and the market have been answered: exposure checks, price,
\* sizing with the ledger as it is now, then (live) the await of createOrder
\* or (not live) the registration of the spend
ResumePlaceTrade ==
    \E c \in 1..MaxInFlight :
      LET call == evalCall.inFlight[c]
          S == [traded |-> call.S.traded, used |-> strategyCapitalUsed,
                calls |-> createOrderCalls]
          e == [refresh |-> "ok", accountOrders |-> << >>,
                market |-> Quote(30, 28, 72, 70, 29), create |-> "error", tp |-> "error"]
          R == placeTradeFn(S, call.a, e, c)
          waits == tradingConfig.liveTrades /\ R.result.submitted > 0
      IN /\ call.pc = "awaitMarket"
         /\ evalCall' = [evalCall EXCEPT !.inFlight[c] =
                            [pc |-> IF waits THEN "awaitCreate" ELSE "done",
                             a |-> call.a, S |-> S]]
         /\ strategyCapitalUsed' = IF waits THEN strategyCapitalUsed ELSE R.used
         /\ successes' = IF ~waits /\ R.result.success
                         THEN successes \cup {[op |-> c, strategy |-> call.a.strategy,
                                                ticker |-> call.a.ticker,
                                                desiredStake |-> Undefined,
                                                spend |-> R.result.spend]}
                         ELSE successes
         /\ lastCall' = IF waits THEN lastCall
                        ELSE [NoCall EXCEPT !.op = "placeTrade",
                                            !.strategy = call.a.strategy,
                                            !.ticker = call.a.ticker,
                                            !.success = R.result.success,
                                            !.error = R.result.error,
                                            !.spend = R.result.spend]
         /\ UNCHANGED <<tradingConfig, hasKalshiClient, tradedGameKeys,
                        createOrderCalls, nCalls, riskVars>>

\* createOrder has been answered: the game is marked, the companion order is
\* sent, the spend is added to the ledger as it is now
FinishPlaceTrade ==
    \E c \in 1..MaxInFlight, create \in {"ok", "error"} :
      LET call == evalCall.inFlight[c]
          e == [refresh |-> "ok", accountOrders |-> << >>,
                market |-> Quote(30, 28, 72, 70, 29), create |-> create, tp |-> "ok"]
          R == placeTradeFn(call.S, call.a, e, c)
          sent == SubSeq(R.calls, Len(call.S.calls) + 1, Len(R.calls))
      IN /\ call.pc = "awaitCreate"
         /\ evalCall' = [evalCall EXCEPT !.inFlight[c].pc = "done"]
         /\ tradedGameKeys' = tradedGameKeys \cup (R.traded \ call.S.traded)
         /\ strategyCapitalUsed' =
                [strategyCapitalUsed EXCEPT ![call.a.strategy] =
                     @ + (R.used[call.a.strategy] - call.S.used[call.a.strategy])]
         /\ createOrderCalls' =
                createOrderCalls \o [i \in 1..Len(sent) |-> LogEntry(sent[i])]
         /\ successes' = IF R.result.success
                         THEN successes \cup {[op |-> c, strategy |-> call.a.strategy,
                                                ticker |-> call.a.ticker,
                                                desiredStake |-> Undefined,
                                                spend |-> R.result.spend]}
                         ELSE successes
         /\ lastCall' = [NoCall EXCEPT !.op = "placeTrade", !.strategy = call.a.strategy,
                                       !.ticker = call.a.ticker,
                                       !.success = R.result.success,
                                       !.error = R.result.error,
                                       !.spend = R.result.spend, !.orders = sent]
         /\ UNCHANGED <<tradingConfig, hasKalshiClient, nCalls, riskVars>>

InFlightInit ==
    /\ tradingConfig \in {c \in TradingConfigs : c.maxBetSize = Undefined}
    /\ hasKalshiClient = TRUE
    /\ tradedGameKeys = {}
    /\ strategyCapitalUsed = InitialLedger
    /\ createOrderCalls = << >>
    /\ successes = {}
    /\ lastCall = NoCall
    /\ nCalls = 0
    /\ riskConfig = EngineRiskConfig
    /\ today = 1
    /\ statsFile = MissingFile
    /\ dailyStats = NoStats
    /\ riskCall = NoRiskCall
    /\ evalCall = [fn |-> "placeTrade",
                   inFlight |-> [c \in 1..MaxInFlight |-> [pc |-> "idle"]]]

InFlightSpec ==
    InFlightInit /\ [][BeginPlaceTrade \/ ResumePlaceTrade \/ FinishPlaceTrade]_vars

\* C25: two interleaved placeTrade calls neither both place an accepted entry
\* order for the same game nor jointly commit more than a strategy's cap.
C25_ChecksAndMutationAreAtomic ==
    /\ \A i, j \in DOMAIN createOrderCalls :
          (/\ i < j
           /\ createOrderCalls[i].kind = "entry" /\ createOrderCalls[j].kind = "entry"
           /\ createOrderCalls[i].status # "none" /\ createOrderCalls[j].status # "none"
           /\ getGameKeyFromTicker(createOrderCalls[i].ticker) # NoGameKey)
             => getGameKeyFromTicker(createOrderCalls[i].ticker)
                    # getGameKeyFromTicker(createOrderCalls[j].ticker)
    /\ \A strategy \in Strategies :
          getStrategyLimit(strategy) # Undefined
              => strategyCapitalUsed[strategy] <= getStrategyLimit(strategy)

-----------------------------------------------------------------------------
(* Further properties of the detectors, checked under DetectorSpec *)

\* C26: when several reference entries match the venue game, the one joined is
\* the first exact team-pair match in input order, and without an exact match
\* the first reversed match.
C26_FirstMatchJoinedExactPreferred ==
    evalCall.fn = "findMispricings" =>
        LET key == <<evalCall.game.awayTeam, evalCall.game.homeTeam>>
            odds == evalCall.espnOdds
            exact == {i \in DOMAIN odds : <<odds[i].awayTeam, odds[i].homeTeam>> = key}
            reversed == {i \in DOMAIN odds : <<odds[i].homeTeam, odds[i].awayTeam>> = key}
            first(hits) == CHOOSE i \in hits : \A j \in hits : i <= j
        IN (exact \cup reversed # {})
              => evalCall.espn = IF exact # {} THEN odds[first(exact)]
                                 ELSE odds[first(reversed)]

\* C27: whenever a divergence is computed for a side, the quote's probability
\* and the reference probability belong to the same team.
C27_DivergenceComparesSameTeam ==
    (evalCall.fn = "findMispricings" /\ evalCall.espn.matched) =>
        /\ (evalCall.kalshiHome # Undefined
               /\ evalCall.espn.homeImpliedProbability # Undefined)
             => evalCall.game.homeTeam = evalCall.espn.homeTeam
        /\ (evalCall.kalshiAway # Undefined
               /\ evalCall.espn.awayImpliedProbability # Undefined)
             => evalCall.game.awayTeam = evalCall.espn.awayTeam

-----------------------------------------------------------------------------
(* Further properties of the exposure checks, checked under ExposureSpec *)

\* C28: symbols of different series never share a game key, so a position or
\* an open order on a symbol of another series does not make placeTrade turn
\* the entry away: when every position held and every open order in use is on
\* another series, the call is not rejected for existing exposure.
C28_OtherSeriesNeverBlocks ==
    (lastCall.op = "placeTrade" /\ evalCall.fn = "placeTrade") =>
        LET otherSeries(u) == u[1] # lastCall.ticker[1]
            held == {evalCall.activePositions[i].ticker :
                        i \in {j \in 1..Len(evalCall.activePositions) :
                                  evalCall.activePositions[j].position # 0}}
            open == {evalCall.ordersInUse[i].ticker :
                        i \in {j \in 1..Len(evalCall.ordersInUse) :
                                  /\ evalCall.ordersInUse[j].status \in {"resting", "pending"}
                                  /\ evalCall.ordersInUse[j].remaining_count > 0}}
        IN /\ \A u \in held \cup open :
                 otherSeries(u)
                    => getGameKeyFromTicker(u) # getGameKeyFromTicker(lastCall.ticker)
           /\ (\A u \in held \cup open : otherSeries(u))
                 => lastCall.error \notin {"Existing position found", "Pending order found"}

-----------------------------------------------------------------------------
(* The arbitrage tier of runMispricingCheckForSport: for each bundle the    *)
(* home leg and then the away leg go through placeTrade on the same         *)
(* service, with the positions and orders fetched at the start of the cycle *)

MaxBundleOps == 2

ExecuteArbitrageBundle ==
    /\ nCalls < MaxBundleOps
    /\ \E bundle \in {[home |-> T_NBA_OKC, away |-> T_NBA_MIN],
                      [home |-> T_NFL_TB, away |-> <<"KXNFLGAME", "25NOV30ARITB", "ARI">>]},
          snapshot \in Snapshots, shouldTrade \in BOOLEAN,
          homeCreate \in CreateOutcomes, awayCreate \in CreateOutcomes :
         LET \* (config.trading.maxBetSize || 5) / 2, in cents
             perLegStake == IF tradingConfig.maxBetSize = Undefined THEN 250
                            ELSE tradingConfig.maxBetSize \div 2
             leg(ticker) ==
                 [strategy |-> "arbitrage", ticker |-> ticker,
                  isKalshiOvervaluing |-> FALSE, kalshiPrice |-> 40,
                  differencePct |-> 100, activePositions |-> snapshot[1],
                  activeOrders |-> snapshot[2], desiredStake |-> perLegStake]
             venue(create) ==
                 [refresh |-> snapshot[3], accountOrders |-> snapshot[2],
                  market |-> Quote(40, 38, 62, 60, 39), create |-> create, tp |-> "error"]
             homeR == placeTradeFn(RunState, leg(bundle.home), venue(homeCreate), nCalls + 1)
             awayR == placeTradeFn([traded |-> homeR.traded, used |-> homeR.used,
                                    calls |-> homeR.calls],
                                   leg(bundle.away), venue(awayCreate), nCalls + 1)
             won == {[op |-> nCalls + 1, strategy |-> "arbitrage", ticker |-> l[1],
                      desiredStake |-> perLegStake, spend |-> l[2].result.spend] :
                        l \in {m \in {<<bundle.home, homeR>>, <<bundle.away, awayR>>} :
                                  m[2].result.success}}
         IN IF ~shouldTrade
            THEN /\ evalCall' = [fn |-> "arbitrageBundle", placed |-> FALSE]
                 /\ lastCall' = [NoCall EXCEPT !.op = "arbitrageBundle"]
                 /\ UNCHANGED <<tradedGameKeys, strategyCapitalUsed, createOrderCalls,
                                successes>>
            ELSE /\ tradedGameKeys' = awayR.traded
                 /\ strategyCapitalUsed' = awayR.used
                 /\ createOrderCalls' =
                        [i \in 1..Len(awayR.calls) |-> LogEntry(awayR.calls[i])]
                 /\ successes' = successes \cup won
                 /\ lastCall' = [NoCall EXCEPT !.op = "arbitrageBundle",
                                      !.strategy = "arbitrage", !.ticker = bundle.away,
                                      !.success = awayR.result.success,
                                      !.error = awayR.result.error,
                                      !.orders = SubSeq(awayR.calls, Len(createOrderCalls) + 1,
                                                        Len(awayR.calls))]
                 /\ evalCall' = [fn |-> "arbitrageBundle", placed |-> TRUE,
                                 bundle |-> bundle,
                                 homeResult |-> homeR.result, awayResult |-> awayR.result,
                                 executed |-> homeR.result.success /\ awayR.result.success]
    /\ nCalls' = nCalls + 1
    /\ UNCHANGED <<tradingConfig, hasKalshiClient, riskVars>>

BundleSpec == Init /\ [][ExecuteArbitrageBundle]_vars

-----------------------------------------------------------------------------
(* One RiskService within one UTC day, used as a gate: recordTrade(n) is    *)
(* called only right after canPlaceTrade(n, ...) has allowed the order      *)

GatedRecordTrade ==
    /\ nCalls < MaxRiskOps
    /\ riskCall.op = "canPlaceTrade"
    /\ riskCall.allowed
    /\ dailyStats' = recordTrade(dailyStats, riskCall.orderNotional)
    /\ statsFile' = saveDailyStats(recordTrade(dailyStats, riskCall.orderNotional))
    /\ riskCall' = RiskCall("recordTrade", Allowed, riskCall.orderNotional, 0,
                            recordTrade(dailyStats, riskCall.orderNotional), statsFile)
    /\ nCalls' = nCalls + 1
    /\ UNCHANGED <<riskConfig, today>>
    /\ UNCHANGED <<tradingVars, evalCall>>

GatedRiskSpec ==
    RiskInit /\ [][CanPlaceTrade \/ GatedRecordTrade \/ UpdateRealizedPnl]_vars

\* C30: with recordTrade called only right after an allowing canPlaceTrade for
\* the same notional, within one day tradesCount never exceeds the maximum of
\* daily trades and notionalSpent never exceeds the maximum daily notional.
C30_GatedCountersWithinDailyLimits ==
    /\ riskConfig.maxDailyTrades # Undefined
          => dailyStats.tradesCount <= riskConfig.maxDailyTrades
    /\ riskConfig.maxDailyNotional # Undefined
          => dailyStats.notionalSpent <= riskConfig.maxDailyNotional

C30_Witness ==
    /\ riskCall.op = "recordTrade"
    /\ riskConfig.maxDailyNotional # Undefined
    /\ dailyStats.tradesCount > 1
    /\ dailyStats.notionalSpent = riskConfig.maxDailyNotional

=============================================================================
